---- MODULE Spec2Model ----
(***************************************************************************)
(* Model of the observable identification, deduplication and creation      *)
(* subsystem of the OpenCTI MCP server (src/opencti_mcp).                   *)
(*                                                                         *)
(* Python strings are modelled as sequences of one-character strings, so   *)
(* that strip(), lower(), the regular expressions and the address parser   *)
(* are computed and not assumed.  Python's None is the one-element         *)
(* sequence PyNone, a missing dictionary key is Absent; neither is a       *)
(* sequence of characters.                                                 *)
(***************************************************************************)
EXTENDS Integers, Sequences, FiniteSets, TLC

\* ------------------------------------------------------------------------
\* Characters and Python string primitives
\* ------------------------------------------------------------------------

UpperChars ==
  <<"A","B","C","D","E","F","G","H","I","J","K","L","M",
    "N","O","P","Q","R","S","T","U","V","W","X","Y","Z">>

LowerChars ==
  <<"a","b","c","d","e","f","g","h","i","j","k","l","m",
    "n","o","p","q","r","s","t","u","v","w","x","y","z">>

DigitChars == <<"0","1","2","3","4","5","6","7","8","9">>

Range(s) == {s[i] : i \in DOMAIN s}

UpperSet == Range(UpperChars)
LowerSet == Range(LowerChars)
DigitSet == Range(DigitChars)
AlphaSet == UpperSet \cup LowerSet

\* str.strip() with no argument removes leading and trailing whitespace.
WhitespaceSet == {" ", "\t", "\n", "\r", "\f"}

\* Python's None and a missing key, as field values.
PyNone == <<"<None>">>
Absent == <<"<absent>">>

\* str.lower() on one ASCII character.
LowerChar(c) ==
  IF c \in UpperSet
    THEN LowerChars[CHOOSE i \in DOMAIN UpperChars : UpperChars[i] = c]
    ELSE c

\* str.lower()
Lower(s) == [i \in DOMAIN s |-> LowerChar(s[i])]

\* str(x): the text of a field value.  str(None) is "None".
PyStr(x) == IF x = PyNone THEN <<"N","o","n","e">> ELSE x

\* dict.get(key, ""): a missing key reads as the empty string, a key that is
\* present with a null value reads as None.
GetOrEmpty(x) == IF x = Absent THEN <<>> ELSE x

\* dict.get(key): a missing key reads as None.
GetOrNone(x) == IF x = Absent THEN PyNone ELSE x

\* Truthiness of a str-or-None value: None and "" are falsy.
Truthy(x) == x # PyNone /\ x # Absent /\ x # <<>>

RECURSIVE LStrip(_)
LStrip(s) ==
  IF s # <<>> /\ Head(s) \in WhitespaceSet THEN LStrip(Tail(s)) ELSE s

RECURSIVE RStrip(_)
RStrip(s) ==
  IF s # <<>> /\ s[Len(s)] \in WhitespaceSet
    THEN RStrip(SubSeq(s, 1, Len(s) - 1))
    ELSE s

\* str.strip()
Strip(s) == RStrip(LStrip(s))

\* str.split(sep) for a one-character separator: always at least one part.
RECURSIVE Split(_, _)
Split(s, sep) ==
  IF \A i \in DOMAIN s : s[i] # sep
    THEN <<s>>
    ELSE LET k == CHOOSE i \in DOMAIN s :
                    s[i] = sep /\ \A j \in 1..(i - 1) : s[j] # sep
         IN  <<SubSeq(s, 1, k - 1)>> \o Split(SubSeq(s, k + 1, Len(s)), sep)

\* sub in s, for strings
Contains(s, sub) ==
  \E i \in 0..(Len(s) - Len(sub)) : SubSeq(s, i + 1, i + Len(sub)) = sub

\* c * n
Repeat(c, n) == [i \in 1..n |-> c]

\* ------------------------------------------------------------------------
\* observables.py
\* ------------------------------------------------------------------------

\* OBSERVABLE_TYPES: kind -> STIX record types.  Kinds are Python strings.
KindIp     == <<"i","p">>
KindDomain == <<"d","o","m","a","i","n">>
KindHash   == <<"h","a","s","h">>

ObservableKinds == {KindIp, KindDomain, KindHash}

OBSERVABLE_TYPES(kind) ==
  CASE kind = KindIp     -> <<"IPv4-Addr", "IPv6-Addr">>
    [] kind = KindDomain -> <<"Domain-Name">>
    [] kind = KindHash   -> <<"Artifact", "StixFile">>

\* Variant of HASH_LENGTHS that also admits the SHA-224 length.
HASH_LENGTHS_with_sha224 == {32, 40, 56, 64, 128}

HASH_LENGTHS == {32, 40, 64, 128}

HexSet == DigitSet \cup {"a","b","c","d","e","f","A","B","C","D","E","F"}

\* The texts a pattern ending in `$` may have matched in full: `$` matches
\* at the end of the string and just before a newline that ends it.
RegexEnd(s) ==
  {s} \cup (IF s # <<>> /\ s[Len(s)] = "\n"
             THEN {SubSeq(s, 1, Len(s) - 1)} ELSE {})

\* HASH_REGEX  ^[A-Fa-f0-9]+$
HASH_REGEX(s) ==
  \E t \in RegexEnd(s) : Len(t) >= 1 /\ \A i \in DOMAIN t : t[i] \in HexSet

\* Variant of a label of DOMAIN_REGEX without the look-behind (?<!-).
DomainLabel_leading_only(l) ==
  /\ Len(l) >= 1
  /\ Len(l) <= 63
  /\ \A i \in DOMAIN l : l[i] \in AlphaSet \cup DigitSet \cup {"-"}
  /\ l[1] # "-"

\* One label of DOMAIN_REGEX: (?!-)[A-Za-z0-9-]{1,63}(?<!-)
DomainLabel(l) ==
  /\ Len(l) >= 1
  /\ Len(l) <= 63
  /\ \A i \in DOMAIN l : l[i] \in AlphaSet \cup DigitSet \cup {"-"}
  /\ l[1] # "-"
  /\ l[Len(l)] # "-"

\* Variant of the final label that admits digits: [A-Za-z0-9]{2,63}
DomainTld_with_digits(l) ==
  /\ Len(l) >= 2
  /\ Len(l) <= 63
  /\ \A i \in DOMAIN l : l[i] \in AlphaSet \cup DigitSet

\* The final label of DOMAIN_REGEX: [A-Za-z]{2,63}
DomainTld(l) ==
  /\ Len(l) >= 2
  /\ Len(l) <= 63
  /\ \A i \in DOMAIN l : l[i] \in AlphaSet

\* DOMAIN_REGEX: one label, any number of further labels, then the final
\* label, all separated by dots.  A label holds no dot, so the match is
\* decided on the dot-separated parts.
DOMAIN_REGEX(s) ==
  \E t \in RegexEnd(s) :
    LET parts == Split(t, ".")
    IN  /\ Len(parts) >= 2
        /\ \A i \in 1..(Len(parts) - 1) : DomainLabel(parts[i])
        /\ DomainTld(parts[Len(parts)])

\* Value of a string of decimal digits.
RECURSIVE DecimalValue(_)
DecimalValue(s) ==
  IF s = <<>> THEN 0
  ELSE 10 * DecimalValue(SubSeq(s, 1, Len(s) - 1))
       + (CHOOSE d \in 0..9 : DigitChars[d + 1] = s[Len(s)])

\* ipaddress.IPv4Address._parse_octet: decimal digits, at most three, no
\* leading zero, at most 255.
ParseOctetOk(o) ==
  /\ Len(o) >= 1
  /\ \A i \in DOMAIN o : o[i] \in DigitSet
  /\ Len(o) <= 3
  /\ ~(Len(o) > 1 /\ o[1] = "0")
  /\ DecimalValue(o) <= 255

\* ipaddress.IPv4Address(value) succeeds.
IsIPv4(s) ==
  /\ "/" \notin Range(s)
  /\ LET octets == Split(s, ".")
     IN  Len(octets) = 4 /\ \A i \in 1..4 : ParseOctetOk(octets[i])

\* ipaddress.IPv6Address._parse_hextet
ParseHextetOk(h) ==
  /\ Len(h) >= 1
  /\ Len(h) <= 4
  /\ \A i \in DOMAIN h : h[i] \in HexSet

\* ipaddress.IPv6Address._ip_int_from_string succeeds on the address part.
IPv6PartsOk(addr) ==
  LET raw == Split(addr, ":")
      last == raw[Len(raw)]
      embedded == "." \in Range(last)
      \* an embedded IPv4 tail is replaced by its two hextets
      parts == IF embedded
                 THEN SubSeq(raw, 1, Len(raw) - 1) \o <<(<<"0">>), (<<"0">>)>>
                 ELSE raw
      n == Len(parts)
      skips == {i \in 2..(n - 1) : parts[i] = <<>>}
  IN  /\ Len(raw) >= 3
      /\ embedded => IsIPv4(last)
      /\ n <= 9
      /\ Cardinality(skips) <= 1
      /\ IF skips # {}
           THEN LET k == CHOOSE i \in skips : TRUE
                    hi0 == k - 1
                    lo0 == n - k
                    hi == IF parts[1] = <<>> THEN hi0 - 1 ELSE hi0
                    lo == IF parts[n] = <<>> THEN lo0 - 1 ELSE lo0
                IN  /\ parts[1] = <<>> => hi = 0
                    /\ parts[n] = <<>> => lo = 0
                    /\ 8 - (hi + lo) >= 1
                    /\ \A i \in 1..hi : ParseHextetOk(parts[i])
                    /\ \A i \in (n - lo + 1)..n : ParseHextetOk(parts[i])
           ELSE /\ n = 8
                /\ \A i \in 1..n : ParseHextetOk(parts[i])

\* ipaddress.IPv6Address(value) succeeds: an optional %scope suffix, then
\* the address part.
IsIPv6(s) ==
  /\ "/" \notin Range(s)
  /\ LET pieces == Split(s, "%")
     IN  \/ Len(pieces) = 1 /\ IPv6PartsOk(s)
         \/ Len(pieces) = 2 /\ pieces[2] # <<>> /\ IPv6PartsOk(pieces[1])

\* _is_ip_address: ipaddress.ip_address(value) does not raise.
IsIpAddress(s) == IsIPv4(s) \/ IsIPv6(s)

\* Variant of _is_hash that tests the characters only.
IsHash_any_length(s) == HASH_REGEX(Lower(s))

\* _is_hash
IsHash(s) ==
  LET lower == Lower(s)
  IN  Len(lower) \in HASH_LENGTHS /\ HASH_REGEX(lower)

\* _is_domain
IsDomain(s) == DOMAIN_REGEX(s)

\* Variant of infer_observable_type that tests the value as given, without
\* trimming it.
infer_observable_type_unstripped(value) ==
  LET candidate == value
  IN  IF candidate = <<>> THEN PyNone
      ELSE IF IsIpAddress(candidate) THEN KindIp
      ELSE IF IsHash(candidate) THEN KindHash
      ELSE IF IsDomain(candidate) THEN KindDomain
      ELSE PyNone

\* infer_observable_type: the inferred kind, or PyNone.
infer_observable_type(value) ==
  LET candidate == Strip(value)
  IN  IF candidate = <<>> THEN PyNone
      ELSE IF IsIpAddress(candidate) THEN KindIp
      ELSE IF IsHash(candidate) THEN KindHash
      ELSE IF IsDomain(candidate) THEN KindDomain
      ELSE PyNone

\* Variant of get_hash_algorithm that also rejects a value that is not
\* hexadecimal.
get_hash_algorithm_validating(hash_value) ==
  LET length == Len(hash_value)
  IN  CASE ~HASH_REGEX(hash_value) -> "ValueError"
        [] length = 32  -> "MD5"
        [] length = 40  -> "SHA-1"
        [] length = 64  -> "SHA-256"
        [] length = 128 -> "SHA-512"
        [] OTHER        -> "ValueError"

\* get_hash_algorithm: the algorithm name, or "ValueError" when it raises.
get_hash_algorithm(hash_value) ==
  LET length == Len(hash_value)
  IN  CASE length = 32  -> "MD5"
        [] length = 40  -> "SHA-1"
        [] length = 64  -> "SHA-256"
        [] length = 128 -> "SHA-512"
        [] OTHER        -> "ValueError"

\* ------------------------------------------------------------------------
\* Records of the remote store and the nodes of its answers
\* ------------------------------------------------------------------------

\* A node of a GraphQL answer, as the dictionary the client reads.  shape is
\* "null" for a JSON null and "dict" for an object; id and entity_type are
\* strings, "<absent>" when the key is missing and "<null>" when it is null;
\* observable_value, value and name are Python strings, Absent or PyNone;
\* hashes is the list of {algorithm, hash} entries (empty when missing).
Node(id, entity_type, observable_value, value, name, hashes) ==
  [shape |-> "dict", id |-> id, entity_type |-> entity_type,
   observable_value |-> observable_value, value |-> value, name |-> name,
   hashes |-> hashes]

EmptyDict == Node("<absent>", "<absent>", Absent, Absent, Absent, <<>>)

NullNode == [EmptyDict EXCEPT !.shape = "null"]

\* Python truthiness of a dict-or-None: None and {} are falsy.
TruthyNode(n) == n.shape = "dict" /\ n # EmptyDict

\* ------------------------------------------------------------------------
\* exceptions.py
\* ------------------------------------------------------------------------

NoError == [type |-> "none", msg |-> ""]

ToolError(msg) == [type |-> "ToolError", msg |-> msg]

OpenCTIAPIError(msg) == [type |-> "OpenCTIAPIError", msg |-> msg]

\* wrap_api_error: a ToolError carrying the exception's text, or the
\* fallback when that text is empty.
wrap_api_error(exc, fallback_message) ==
  ToolError(IF exc.msg = "" THEN fallback_message ELSE exc.msg)

\* except OpenCTIAPIError as exc: raise wrap_api_error(exc, fallback).  Any
\* other exception is not caught and leaves the tool as it is.
ExceptApiError(exc, fallback_message) ==
  IF exc.type = "OpenCTIAPIError"
    THEN wrap_api_error(exc, fallback_message)
    ELSE exc

\* ------------------------------------------------------------------------
\* config.py
\* ------------------------------------------------------------------------

\* os.environ.get(name): None when the variable is not set.
EnvironGet(value) == IF value = "<unset>" THEN "<None>" ELSE value

\* Variant of from_env that falls back to a built-in connector when the
\* variable is not set or empty.
from_env_defaulting(env) ==
  LET raw == EnvironGet(env.VIRUSTOTAL_CONNECTOR_ID)
  IN  [virustotal_connector_id |->
         IF raw = "<None>" \/ raw = "" THEN "connector-default" ELSE raw]

\* OpenCTISettings.from_env, for an environment that has the required
\* variables:  vt_connector_id = os.environ.get(...) or None
from_env(env) ==
  LET raw == EnvironGet(env.VIRUSTOTAL_CONNECTOR_ID)
  IN  [virustotal_connector_id |-> IF raw = "<None>" \/ raw = "" THEN "<None>" ELSE raw]

\* The settings cache of get_settings before the first call.
NotLoaded == [virustotal_connector_id |-> "<not loaded>"]

\* Variant of get_settings without the cache: every call reads the
\* environment.
get_settings_uncached(cache, env) == from_env(env)

\* get_settings under lru_cache(maxsize=1): the first call loads the
\* settings from the environment, every later call returns the cached
\* settings.  The result is both returned and kept.
get_settings(cache, env) == IF cache = NotLoaded THEN from_env(env) ELSE cache

\* ------------------------------------------------------------------------
\* client.py
\* ------------------------------------------------------------------------

\* What the transport can do with one GraphQL request.
GraphqlOutcomes == {"network", "http_status", "bad_json", "errors", "data"}

\* graphql_query: the exception it raises for an outcome, NoError when it
\* returns the data.  httpx's own exceptions (a transport failure, and
\* raise_for_status on an error status) are not converted.
graphql_query(outcome) ==
  CASE outcome = "network"     -> [type |-> "httpx.TransportError", msg |-> "transport"]
    [] outcome = "http_status" -> [type |-> "httpx.HTTPStatusError", msg |-> "status"]
    [] outcome = "bad_json"    ->
         OpenCTIAPIError("Invalid JSON response from OpenCTI GraphQL API")
    [] outcome = "errors"      -> OpenCTIAPIError("GraphQL error")
    [] outcome = "data"        -> NoError

\* find_observable_by_value's default result cap.
SEARCH_LIMIT == 10

\* Variant of _match_observable_node that compares the node's texts as they
\* are stored, without lower-casing them.
match_observable_node_cased(node, target) ==
  IF ~TruthyNode(node) THEN EmptyDict
  ELSE LET observed_values ==
             { PyStr(GetOrEmpty(node.observable_value)),
               PyStr(GetOrEmpty(node.value)),
               PyStr(GetOrEmpty(node.name)) }
       IN  IF target \in observed_values THEN node
           ELSE IF \E i \in DOMAIN node.hashes :
                     PyStr(GetOrEmpty(node.hashes[i].hash)) = target
             THEN node
             ELSE EmptyDict

\* _match_observable_node: the node when it matches the target, else
\* EmptyDict (None).
match_observable_node(node, target) ==
  IF ~TruthyNode(node) THEN EmptyDict
  ELSE LET observed_values ==
             { Lower(PyStr(GetOrEmpty(node.observable_value))),
               Lower(PyStr(GetOrEmpty(node.value))),
               Lower(PyStr(GetOrEmpty(node.name))) }
       IN  IF target \in observed_values THEN node
           ELSE IF \E i \in DOMAIN node.hashes :
                     Lower(PyStr(GetOrEmpty(node.hashes[i].hash))) = target
             THEN node
             ELSE EmptyDict

\* The loop of find_observable_by_value: the first edge whose node matches.
RECURSIVE first_match(_, _)
first_match(edges, target) ==
  IF edges = <<>> THEN EmptyDict
  ELSE IF TruthyNode(match_observable_node(Head(edges), target))
    THEN match_observable_node(Head(edges), target)
    ELSE first_match(Tail(edges), target)

\* find_observable_by_value, given the edges the search returned.
find_observable_by_value(value, edges) == first_match(edges, Lower(value))

\* Variant of the client's create_observable that creates every address as
\* an IPv4-Addr.
create_request_ipv4_only(value, observable_type) ==
  IF observable_type = KindDomain
    THEN [raise |-> NoError, stix_type |-> "Domain-Name", algorithm |-> ""]
  ELSE IF observable_type = KindIp
    THEN IF ~IsIpAddress(value)
           THEN [raise |-> OpenCTIAPIError("Invalid IP address value"),
                 stix_type |-> "", algorithm |-> ""]
           ELSE [raise |-> NoError, stix_type |-> "IPv4-Addr", algorithm |-> ""]
  ELSE IF get_hash_algorithm(value) = "ValueError"
    THEN [raise |-> OpenCTIAPIError("Invalid hash length"),
          stix_type |-> "", algorithm |-> ""]
    ELSE [raise |-> NoError, stix_type |-> "Artifact",
          algorithm |-> get_hash_algorithm(value)]

\* Variant of the client's create_observable that creates a hash of an
\* unknown length as an MD5 artifact.
create_request_defaulting(value, observable_type) ==
  IF observable_type = KindDomain
    THEN [raise |-> NoError, stix_type |-> "Domain-Name", algorithm |-> ""]
  ELSE IF observable_type = KindIp
    THEN IF ~IsIpAddress(value)
           THEN [raise |-> OpenCTIAPIError("Invalid IP address value"),
                 stix_type |-> "", algorithm |-> ""]
           ELSE [raise |-> NoError,
                 stix_type |-> IF IsIPv4(value) THEN "IPv4-Addr" ELSE "IPv6-Addr",
                 algorithm |-> ""]
  ELSE [raise |-> NoError, stix_type |-> "Artifact",
        algorithm |-> IF get_hash_algorithm(value) = "ValueError"
                        THEN "MD5" ELSE get_hash_algorithm(value)]

\* create_observable of the client up to the request it sends: the kind
\* selects the mutation.  raise is the OpenCTIAPIError raised before any
\* request is sent, NoError when the request goes out.
create_request(value, observable_type) ==
  IF observable_type = KindDomain
    THEN [raise |-> NoError, stix_type |-> "Domain-Name", algorithm |-> ""]
  ELSE IF observable_type = KindIp
    THEN IF ~IsIpAddress(value)
           THEN [raise |-> OpenCTIAPIError("Invalid IP address value"),
                 stix_type |-> "", algorithm |-> ""]
           ELSE [raise |-> NoError,
                 stix_type |-> IF IsIPv4(value) THEN "IPv4-Addr" ELSE "IPv6-Addr",
                 algorithm |-> ""]
  ELSE IF get_hash_algorithm(value) = "ValueError"
    THEN [raise |-> OpenCTIAPIError("Invalid hash length"),
          stix_type |-> "", algorithm |-> ""]
    ELSE [raise |-> NoError, stix_type |-> "Artifact",
          algorithm |-> get_hash_algorithm(value)]

\* _execute_create_mutation: the exception raised for a transport outcome
\* and the stixCyberObservableAdd value of the data.
execute_create_mutation(outcome, created) ==
  IF graphql_query(outcome) # NoError THEN graphql_query(outcome)
  ELSE IF ~TruthyNode(created) \/ created.id = "<absent>"
    THEN OpenCTIAPIError("Failed to create observable.")
    ELSE NoError

\* ask_enrichment: the exception raised for a transport outcome and the
\* askEnrichment id of the data ("<absent>" when the block or its id is
\* missing).
ask_enrichment(outcome, work_id) ==
  IF graphql_query(outcome) # NoError THEN graphql_query(outcome)
  ELSE IF work_id = "<absent>"
    THEN OpenCTIAPIError("Failed to request enrichment for the observable.")
    ELSE NoError

\* ------------------------------------------------------------------------
\* server.py helpers
\* ------------------------------------------------------------------------

\* `not value or not value.strip()`
BlankValue(value) == ~Truthy(value) \/ ~Truthy(Strip(value))

\* Variant of _normalize_observable_type that falls back to the domain kind
\* when the classifier returns None.
normalize_observable_type_guessing(value, value_type) ==
  IF Truthy(value_type)
    THEN IF Lower(value_type) \notin ObservableKinds
           THEN [kind |-> PyNone,
                 error |-> ToolError("Parameter 'value_type' must be one of: ip, domain, hash.")]
           ELSE [kind |-> Lower(value_type), error |-> NoError]
    ELSE IF ~Truthy(infer_observable_type(value))
           THEN [kind |-> KindDomain, error |-> NoError]
           ELSE [kind |-> infer_observable_type(value), error |-> NoError]

\* Variant of _normalize_observable_type that compares the explicit kind
\* without lower-casing it.
normalize_observable_type_cased(value, value_type) ==
  IF Truthy(value_type)
    THEN IF value_type \notin ObservableKinds
           THEN [kind |-> PyNone,
                 error |-> ToolError("Parameter 'value_type' must be one of: ip, domain, hash.")]
           ELSE [kind |-> value_type, error |-> NoError]
    ELSE IF ~Truthy(infer_observable_type(value))
           THEN [kind |-> PyNone,
                 error |-> ToolError("Unable to infer value type.")]
           ELSE [kind |-> infer_observable_type(value), error |-> NoError]

\* _normalize_observable_type: the kind, or the ToolError raised.
normalize_observable_type(value, value_type) ==
  IF Truthy(value_type)
    THEN IF Lower(value_type) \notin ObservableKinds
           THEN [kind |-> PyNone,
                 error |-> ToolError("Parameter 'value_type' must be one of: ip, domain, hash.")]
           ELSE [kind |-> Lower(value_type), error |-> NoError]
    ELSE IF ~Truthy(infer_observable_type(value))
           THEN [kind |-> PyNone,
                 error |-> ToolError("Unable to infer value type.")]
           ELSE [kind |-> infer_observable_type(value), error |-> NoError]

\* Variant of the projection that prefers the value field to
\* observable_value.
ProjectedValue_value_first(observable, original_value) ==
  IF Truthy(GetOrNone(observable.value)) THEN observable.value
  ELSE IF Truthy(GetOrNone(observable.observable_value)) THEN observable.observable_value
  ELSE IF Truthy(GetOrNone(observable.name)) THEN observable.name
  ELSE original_value

\* The first truthy of observable_value, value, name, else the input.
ProjectedValue(observable, original_value) ==
  IF Truthy(GetOrNone(observable.observable_value)) THEN observable.observable_value
  ELSE IF Truthy(GetOrNone(observable.value)) THEN observable.value
  ELSE IF Truthy(GetOrNone(observable.name)) THEN observable.name
  ELSE original_value

\* observable["id"] raises KeyError when the key is missing.
KeyError == [type |-> "KeyError", msg |-> "id"]

\* _format_observable_result, where observable["id"] does not raise.
format_observable_result(observable, original_value, status) ==
  [status |-> status,
   id |-> observable.id,
   entity_type |-> IF observable.entity_type = "<absent>" THEN "<null>"
                   ELSE observable.entity_type,
   value |-> ProjectedValue(observable, original_value)]

\* ------------------------------------------------------------------------
\* The remote store (the GraphQL endpoint the client talks to)
\* ------------------------------------------------------------------------

\* The record the store keeps for a stixCyberObservableAdd mutation: a
\* Domain-Name or an address carries the value, an Artifact carries one
\* hash entry; observable_value is the store's display value.
StoredRecord(id, stix_type, value, algorithm) ==
  IF stix_type = "Artifact"
    THEN Node(id, stix_type, value, Absent, Absent,
              <<[algorithm |-> algorithm, hash |-> value]>>)
    ELSE Node(id, stix_type, value, value, Absent, <<>>)

\* What the mutation's selection set (id, entity_type, observable_value)
\* returns of a record.
CreatedView(rec) ==
  Node(rec.id, rec.entity_type, rec.observable_value, Absent, Absent, <<>>)

\* The texts of a record the store's full-text search looks at.
RecordTexts(rec) ==
  {Lower(f) : f \in {x \in {rec.observable_value, rec.value, rec.name} : Truthy(x)}}
    \cup {Lower(rec.hashes[i].hash) : i \in DOMAIN rec.hashes}

\* stixCyberObservables(search, types): the record is of one of the types
\* and one of its texts contains the search term, ignoring case.
Relevant(rec, search, types) ==
  /\ rec.entity_type \in Range(types)
  /\ \E t \in RecordTexts(rec) : Contains(t, Lower(search))

RECURSIVE Ascending(_)
Ascending(S) ==
  IF S = {} THEN <<>>
  ELSE LET m == CHOOSE x \in S : \A y \in S : x <= y
       IN  <<m>> \o Ascending(S \ {m})

Reverse(s) == [i \in DOMAIN s |-> s[Len(s) + 1 - i]]

\* Answers are enumerated in every order up to this many candidates, and in
\* store order and its reverse above it.
MaxShuffled == 2

Orders(S) ==
  IF Cardinality(S) <= MaxShuffled
    THEN {f \in [1..Cardinality(S) -> S] : \A i, j \in DOMAIN f : i # j => f[i] # f[j]}
    ELSE {Ascending(S), Reverse(Ascending(S))}

Min(a, b) == IF a <= b THEN a ELSE b

\* stixCyberObservables(search, types, first): the edges of one page: all
\* relevant records when there are at most `first`, else any `first` of them.
SearchAnswers(records, search, types, first) ==
  LET R == {i \in DOMAIN records : Relevant(records[i], search, types)}
      n == Min(first, Cardinality(R))
      picks == {S \in SUBSET R : Cardinality(S) = n}
  IN  UNION {{[k \in DOMAIN o |-> records[o[k]]] : o \in Orders(S)} : S \in picks}

\* ------------------------------------------------------------------------
\* Inputs
\* ------------------------------------------------------------------------

ExampleCom == <<"e","x","a","m","p","l","e",".","c","o","m">>
ExampleComPadded == <<" ","E","x","a","m","p","l","e",".","C","O","M","\n">>
Ip8888 == <<"8",".","8",".","8",".","8">>
Md5Lower == <<"d","4","1","d","8","c","d","9">> \o Repeat("0", 16)
              \o <<"e","c","f","8","4","2","7","e">>
Md5Upper == <<"D","4","1","D","8","C","D","9">> \o Repeat("0", 16)
              \o <<"E","C","F","8","4","2","7","E">>
NotAValue == <<"n","o","t"," ","a"," ","v","a","l","u","e","!","!">>
EmptyString == <<>>
Spaces == <<" "," ">>

KindDomainCased == <<"D","o","m","a","i","n">>
KindIpUpper == <<"I","P">>
KindUrl == <<"u","r","l">>

Input(value, value_type) == [value |-> value, value_type |-> value_type]

\* The (value, value_type) arguments the tools are invoked with.
Inputs ==
  { Input(Spaces, PyNone), Input(Spaces, KindDomain), Input(EmptyString, KindUrl),
    Input(ExampleComPadded, PyNone), Input(ExampleComPadded, EmptyString),
    Input(ExampleComPadded, KindUrl), Input(ExampleComPadded, KindIpUpper),
    Input(Ip8888, PyNone), Input(Ip8888, KindDomainCased), Input(Ip8888, KindHash),
    Input(Md5Upper, PyNone), Input(Md5Upper, KindDomain),
    Input(NotAValue, PyNone), Input(NotAValue, EmptyString) }

\* The arguments of the invocations that race for one value.
RaceInputs ==
  { Input(ExampleCom, PyNone), Input(ExampleComPadded, PyNone),
    Input(Ip8888, PyNone), Input(Md5Lower, PyNone), Input(Md5Upper, KindHash) }

\* os.environ: the VIRUSTOTAL_CONNECTOR_ID variable is set to an identifier,
\* set to the empty string, or not set.
ConnectorIds == {"connector-vt", "", "<unset>"}

Environ(connector) == [VIRUSTOTAL_CONNECTOR_ID |-> connector]

\* Identifiers the store gives to the records it creates.
NewIds == <<"new-1", "new-2", "new-3", "new-4", "new-5", "new-6">>

\* The identifier the store gives to its next record.
NextNewId(records) ==
  NewIds[Cardinality({i \in DOMAIN records : records[i].id \in Range(NewIds)}) + 1]

\* The candidates whose text contains "example.com" without being it.
SubdomainRecord(i) ==
  Node(<<"sub-1","sub-2","sub-3","sub-4","sub-5",
         "sub-6","sub-7","sub-8","sub-9","sub-10">>[i],
       "Domain-Name",
       <<LowerChars[i], ".">> \o ExampleCom,
       <<LowerChars[i], ".">> \o ExampleCom, Absent, <<>>)

ExactRecord == Node("seed-1", "Domain-Name", ExampleCom, ExampleCom, Absent, <<>>)

EmptyStore == <<>>
SeededStore == <<ExactRecord>>
CrowdedStore == [i \in 1..10 |-> SubdomainRecord(i)] \o <<ExactRecord>>

\* ------------------------------------------------------------------------
\* State
\* ------------------------------------------------------------------------

\* Concurrent tool invocations in flight, and invocations started in all.
MaxInvocations == 2
MaxRaceInvocations == 3

Procs == {1, 2}

VARIABLES
  store,       \* the remote store's records, in creation order
  environ,     \* the process environment
  settings,    \* the process-wide settings
  lastCall,    \* the last application of a function of observables.py
  inv,         \* per slot: the tool invocation running in it
  started,     \* invocations started so far
  createdLog   \* history: the "created" results returned so far

vars == <<store, environ, settings, lastCall, inv, started, createdLog>>

\* No function of observables.py has been applied.
NoCall == [fn |-> "", arg |-> <<>>, kind |-> <<>>, accepted |-> FALSE, algorithm |-> ""]

NoResult == [status |-> "", id |-> "", entity_type |-> "", value |-> <<>>]

Call(call, value, types, first, stix_type, algorithm, id, connector_id) ==
  [call |-> call, value |-> value, types |-> types, first |-> first,
   stix_type |-> stix_type, algorithm |-> algorithm, id |-> id,
   connector_id |-> connector_id]

SearchCall(value, types, first) ==
  Call("search", value, types, first, "", "", "", "")

CreateCall(value, stix_type, algorithm) ==
  Call("create", value, <<>>, 0, stix_type, algorithm, "", "")

EnrichCall(id, connector_id) ==
  Call("enrich", <<>>, <<>>, 0, "", "", id, connector_id)

\* An idle slot.  pc is the await the invocation is suspended at ("search",
\* "create", "enrich"), or "done" once it has returned or raised.  The
\* fields from calls on are history: the external calls issued, the
\* transport outcome and the edges of the search answer, the ids of the
\* store's records equal to the input when the search was answered, the
\* transport outcome and the content of the mutation's answer, and the
\* "created" results that had been returned when the invocation started.
IdleCtx ==
  [pc |-> "idle", op |-> "", value |-> <<>>, value_type |-> PyNone,
   kind |-> PyNone, existing |-> EmptyDict,
   outcome |-> "", result |-> NoResult, work_id |-> "", connector_id |-> "",
   error |-> NoError,
   calls |-> <<>>, search_outcome |-> "", edges |-> <<>>, held |-> {},
   reply_outcome |-> "", reply_node |-> EmptyDict, reply_work |-> "",
   prior |-> {}, environ_at_call |-> Environ("<unset>")]

Raise(ctx, exc) == [ctx EXCEPT !.pc = "done", !.outcome = "error", !.error = exc]

Return(ctx, result) ==
  [ctx EXCEPT !.pc = "done", !.outcome = "result", !.result = result]

\* The ids of the records of the given types whose value, or one of whose
\* hashes, equals the value ignoring case (history only).
HeldEqual(records, value, types) ==
  {records[i].id : i \in
     {j \in DOMAIN records :
        /\ records[j].entity_type \in Range(types)
        /\ \/ Truthy(records[j].observable_value)
                /\ Lower(records[j].observable_value) = Lower(value)
           \/ Truthy(records[j].value) /\ Lower(records[j].value) = Lower(value)
           \/ \E h \in DOMAIN records[j].hashes :
                Lower(records[j].hashes[h].hash) = Lower(value)}}

\* return _format_observable_result(observable, value, status=status)
ReturnFormatted(ctx, observable, status) ==
  IF observable.shape = "null" \/ observable.id = "<absent>"
    THEN Raise(ctx, KeyError)
    ELSE Return(ctx, format_observable_result(observable, ctx.value, status))

\* ------------------------------------------------------------------------
\* server.py: create_observable, from its call to its first await
\* ------------------------------------------------------------------------

\* Variant of create_observable that resolves the kind before it looks at
\* the value.
create_observable_begin_kind_first(ctx) ==
  IF normalize_observable_type(ctx.value, ctx.value_type).error # NoError
    THEN Raise(ctx, normalize_observable_type(ctx.value, ctx.value_type).error)
  ELSE IF BlankValue(ctx.value)
    THEN Raise(ctx, ToolError("Parameter 'value' must be a non-empty string."))
  ELSE LET normalized_type == normalize_observable_type(ctx.value, ctx.value_type).kind
       IN  [ctx EXCEPT !.pc = "search",
                       !.kind = normalized_type,
                       !.calls = <<SearchCall(Strip(ctx.value),
                                              OBSERVABLE_TYPES(normalized_type),
                                              SEARCH_LIMIT)>>]

\* Variant of create_observable that searches for the value as given.
create_observable_begin_untrimmed(ctx) ==
  IF BlankValue(ctx.value)
    THEN Raise(ctx, ToolError("Parameter 'value' must be a non-empty string."))
  ELSE IF normalize_observable_type(ctx.value, ctx.value_type).error # NoError
    THEN Raise(ctx, normalize_observable_type(ctx.value, ctx.value_type).error)
  ELSE LET normalized_type == normalize_observable_type(ctx.value, ctx.value_type).kind
       IN  [ctx EXCEPT !.pc = "search",
                       !.kind = normalized_type,
                       !.calls = <<SearchCall(ctx.value,
                                              OBSERVABLE_TYPES(normalized_type),
                                              SEARCH_LIMIT)>>]

create_observable_begin(ctx) ==
  IF BlankValue(ctx.value)
    THEN Raise(ctx, ToolError("Parameter 'value' must be a non-empty string."))
  ELSE IF normalize_observable_type(ctx.value, ctx.value_type).error # NoError
    THEN Raise(ctx, normalize_observable_type(ctx.value, ctx.value_type).error)
  ELSE LET normalized_type == normalize_observable_type(ctx.value, ctx.value_type).kind
       IN  [ctx EXCEPT !.pc = "search",
                       !.kind = normalized_type,
                       !.calls = <<SearchCall(Strip(ctx.value),
                                              OBSERVABLE_TYPES(normalized_type),
                                              SEARCH_LIMIT)>>]

\* Variant of the miss branch with a single-flight guard: no creation is
\* requested while another invocation's creation for the value is in flight.
create_observable_miss_single_flight(ctx) ==
  LET request == create_request(Strip(ctx.value), ctx.kind)
  IN  IF request.raise # NoError
        THEN Raise(ctx, ExceptApiError(request.raise,
                                       "Failed to create observable in OpenCTI."))
      ELSE IF \E q \in Procs :
                /\ inv[q].pc = "create"
                /\ Lower(inv[q].calls[2].value) = Lower(Strip(ctx.value))
        THEN Raise(ctx, ToolError("Observable creation already in progress."))
        ELSE [ctx EXCEPT !.pc = "create",
                         !.calls = Append(@, CreateCall(Strip(ctx.value),
                                                        request.stix_type,
                                                        request.algorithm))]

\* The miss branch: the client builds the creation request, which may raise
\* before anything is sent.
create_observable_miss(ctx) ==
  LET request == create_request(Strip(ctx.value), ctx.kind)
  IN  IF request.raise # NoError
        THEN Raise(ctx, ExceptApiError(request.raise,
                                       "Failed to create observable in OpenCTI."))
        ELSE [ctx EXCEPT !.pc = "create",
                         !.calls = Append(@, CreateCall(Strip(ctx.value),
                                                        request.stix_type,
                                                        request.algorithm))]

\* Variant of create_observable that takes a failed search for a miss.
create_observable_searched_failure_as_miss(ctx, outcome, edges) ==
  IF graphql_query(outcome) # NoError
    THEN create_observable_miss(ctx)
  ELSE LET existing == find_observable_by_value(Strip(ctx.value), edges)
       IN  IF TruthyNode(existing)
             THEN ReturnFormatted([ctx EXCEPT !.existing = existing],
                                  existing, "exists")
             ELSE create_observable_miss(ctx)

\* From the search's answer to the return, the raise or the next await.
create_observable_searched(ctx, outcome, edges) ==
  IF graphql_query(outcome) # NoError
    THEN Raise(ctx, ExceptApiError(graphql_query(outcome),
                                   "Failed to search for observable in OpenCTI."))
  ELSE LET existing == find_observable_by_value(Strip(ctx.value), edges)
       IN  IF TruthyNode(existing)
             THEN ReturnFormatted([ctx EXCEPT !.existing = existing],
                                  existing, "exists")
             ELSE create_observable_miss(ctx)

\* Variant of create_observable that sends the creation request once more
\* when the first one failed.
create_observable_created_retrying(ctx, outcome, created) ==
  IF execute_create_mutation(outcome, created) # NoError
    THEN IF Len(ctx.calls) < 3
           THEN [ctx EXCEPT !.calls = Append(@, ctx.calls[2])]
           ELSE Raise(ctx, ExceptApiError(execute_create_mutation(outcome, created),
                                          "Failed to create observable in OpenCTI."))
    ELSE ReturnFormatted(ctx, created, "created")

\* Variant of create_observable that answers a failed creation with a
\* result instead of raising.
create_observable_created_quiet(ctx, outcome, created) ==
  IF execute_create_mutation(outcome, created) # NoError
    THEN Return(ctx, [NoResult EXCEPT !.status = "failed"])
    ELSE ReturnFormatted(ctx, created, "created")

\* From the creation's answer to the return or the raise.
create_observable_created(ctx, outcome, created) ==
  IF execute_create_mutation(outcome, created) # NoError
    THEN Raise(ctx, ExceptApiError(execute_create_mutation(outcome, created),
                                   "Failed to create observable in OpenCTI."))
    ELSE ReturnFormatted(ctx, created, "created")

\* ------------------------------------------------------------------------
\* server.py: ask_virustotal_enrichment
\* ------------------------------------------------------------------------

ask_virustotal_enrichment_begin(ctx, connector_id) ==
  IF BlankValue(ctx.value)
    THEN Raise(ctx, ToolError("Parameter 'value' must be a non-empty string."))
  ELSE IF connector_id = "<None>" \/ connector_id = ""
    THEN Raise(ctx, ToolError("VirusTotal connector not configured."))
  ELSE IF normalize_observable_type(ctx.value, ctx.value_type).error # NoError
    THEN Raise(ctx, normalize_observable_type(ctx.value, ctx.value_type).error)
  ELSE LET normalized_type == normalize_observable_type(ctx.value, ctx.value_type).kind
       IN  [ctx EXCEPT !.pc = "search",
                       !.kind = normalized_type,
                       !.connector_id = connector_id,
                       !.calls = <<SearchCall(Strip(ctx.value),
                                              OBSERVABLE_TYPES(normalized_type),
                                              SEARCH_LIMIT)>>]

\* Variant of ask_virustotal_enrichment that requests the enrichment
\* whether or not the search found the observable.
ask_virustotal_enrichment_searched_unguarded(ctx, outcome, edges) ==
  IF graphql_query(outcome) # NoError
    THEN Raise(ctx, ExceptApiError(graphql_query(outcome),
                                   "Failed to search for observable in OpenCTI."))
  ELSE LET observable == find_observable_by_value(Strip(ctx.value), edges)
       IN  [ctx EXCEPT !.pc = "enrich",
                       !.existing = observable,
                       !.calls = Append(@, EnrichCall(observable.id,
                                                      ctx.connector_id))]

\* Variant of ask_virustotal_enrichment that passes the connector and the
\* observable identifiers to ask_enrichment in the other order.
ask_virustotal_enrichment_searched_swapped(ctx, outcome, edges) ==
  IF graphql_query(outcome) # NoError
    THEN Raise(ctx, ExceptApiError(graphql_query(outcome),
                                   "Failed to search for observable in OpenCTI."))
  ELSE LET observable == find_observable_by_value(Strip(ctx.value), edges)
       IN  IF ~TruthyNode(observable)
             THEN Raise(ctx, ToolError("No observable found matching value"))
           ELSE IF observable.id = "<absent>" THEN Raise(ctx, KeyError)
             ELSE [ctx EXCEPT !.pc = "enrich",
                              !.existing = observable,
                              !.calls = Append(@, EnrichCall(ctx.connector_id,
                                                             observable.id))]

ask_virustotal_enrichment_searched(ctx, outcome, edges) ==
  IF graphql_query(outcome) # NoError
    THEN Raise(ctx, ExceptApiError(graphql_query(outcome),
                                   "Failed to search for observable in OpenCTI."))
  ELSE LET observable == find_observable_by_value(Strip(ctx.value), edges)
       IN  IF ~TruthyNode(observable)
             THEN Raise(ctx, ToolError("No observable found matching value"))
           ELSE IF observable.id = "<absent>" THEN Raise(ctx, KeyError)
             ELSE [ctx EXCEPT !.pc = "enrich",
                              !.existing = observable,
                              !.calls = Append(@, EnrichCall(observable.id,
                                                             ctx.connector_id))]

ask_virustotal_enrichment_enriched(ctx, outcome, work_id) ==
  IF ask_enrichment(outcome, work_id) # NoError
    THEN Raise(ctx, ExceptApiError(ask_enrichment(outcome, work_id),
                                   "Failed to request enrichment from OpenCTI."))
    ELSE Return([ctx EXCEPT !.work_id = work_id],
                [status |-> "",
                 id |-> ctx.existing.id,
                 entity_type |-> IF ctx.existing.entity_type = "<absent>"
                                   THEN "<null>" ELSE ctx.existing.entity_type,
                 value |-> ProjectedValue(ctx.existing, ctx.value)])

\* ------------------------------------------------------------------------
\* Actions
\* ------------------------------------------------------------------------

NewCtx(op, value, value_type) ==
  [IdleCtx EXCEPT !.op = op, !.value = value, !.value_type = value_type,
                  !.prior = createdLog, !.environ_at_call = environ]

\* A caller invokes the create_observable tool.  _build_client, reached
\* once the value and the kind are accepted, calls get_settings.
CreateObservableCalled(p, inputs, limit) ==
  /\ inv[p].pc = "idle"
  /\ started < limit
  /\ \E input \in inputs :
       LET begun == create_observable_begin(
                      NewCtx("create_observable", input.value, input.value_type))
       IN  /\ inv' = [inv EXCEPT ![p] = begun]
           /\ settings' = IF begun.pc = "search"
                             THEN get_settings(settings, environ) ELSE settings
  /\ started' = started + 1
  /\ UNCHANGED <<store, environ, lastCall, createdLog>>

\* A caller invokes the ask_virustotal_enrichment tool, which calls
\* get_settings once the value is accepted.
AskEnrichmentCalled(p, inputs, limit) ==
  /\ inv[p].pc = "idle"
  /\ started < limit
  /\ \E input \in inputs :
       /\ inv' = [inv EXCEPT ![p] =
                    ask_virustotal_enrichment_begin(
                      NewCtx("ask_virustotal_enrichment", input.value,
                             input.value_type),
                      get_settings(settings, environ).virustotal_connector_id)]
       /\ settings' = IF BlankValue(input.value)
                         THEN settings ELSE get_settings(settings, environ)
  /\ started' = started + 1
  /\ UNCHANGED <<store, environ, lastCall, createdLog>>

\* The edges a search request can be answered with.
EdgesFor(outcome, call) ==
  IF outcome = "data"
    THEN SearchAnswers(store, call.value, call.types, call.first)
    ELSE {<<>>}

WithSearchHistory(ctx, outcome, edges) ==
  [ctx EXCEPT !.search_outcome = outcome,
              !.edges = edges,
              !.held = HeldEqual(store, ctx.calls[1].value, ctx.calls[1].types)]

WithReplyHistory(ctx, outcome, node, work_id) ==
  [ctx EXCEPT !.reply_outcome = outcome, !.reply_node = node,
              !.reply_work = work_id]

\* The search of a create_observable invocation is answered.
CreateObservableSearched(p, outcomes) ==
  /\ inv[p].pc = "search"
  /\ inv[p].op = "create_observable"
  /\ \E outcome \in outcomes :
       \E edges \in EdgesFor(outcome, inv[p].calls[1]) :
         inv' = [inv EXCEPT ![p] =
                   create_observable_searched(WithSearchHistory(inv[p], outcome, edges),
                                              outcome, edges)]
  /\ UNCHANGED <<store, environ, settings, lastCall, started, createdLog>>

\* The search of an ask_virustotal_enrichment invocation is answered.
AskEnrichmentSearched(p) ==
  /\ inv[p].pc = "search"
  /\ inv[p].op = "ask_virustotal_enrichment"
  /\ \E outcome \in GraphqlOutcomes :
       \E edges \in EdgesFor(outcome, inv[p].calls[1]) :
         inv' = [inv EXCEPT ![p] =
                   ask_virustotal_enrichment_searched(
                     WithSearchHistory(inv[p], outcome, edges), outcome, edges)]
  /\ UNCHANGED <<store, environ, settings, lastCall, started, createdLog>>

\* What a stixCyberObservableAdd answer can carry for the record the store
\* made: the record, null, an empty object, the record without its id, the
\* record with a null id ("blank_value": the record with a null
\* observable_value).
CreateShapes == {"record", "null", "empty", "no_id", "null_id"}

CreatedResponse(rec, shape) ==
  CASE shape = "record"  -> CreatedView(rec)
    [] shape = "null"    -> NullNode
    [] shape = "empty"   -> EmptyDict
    [] shape = "no_id"   -> [CreatedView(rec) EXCEPT !.id = "<absent>"]
    [] shape = "null_id" -> [CreatedView(rec) EXCEPT !.id = "<null>"]
    [] shape = "blank_value" -> [CreatedView(rec) EXCEPT !.observable_value = PyNone]

\* Whether the store kept the record: it did when it answered with it, it
\* did not when it answered null, {} or with an error, and either is
\* possible when the answer was lost or unreadable.
Applied(outcome, shape) ==
  CASE outcome = "data" -> {shape \in {"record", "no_id", "null_id", "blank_value"}}
    [] outcome \in {"network", "bad_json"} -> {TRUE, FALSE}
    [] OTHER -> {FALSE}

\* The creation request of a create_observable invocation is answered.
CreateObservableCreated(p, outcomes, shapes) ==
  /\ inv[p].pc = "create"
  /\ LET call == inv[p].calls[2]
         rec == StoredRecord(NextNewId(store), call.stix_type,
                             call.value, call.algorithm)
     IN  \E outcome \in outcomes :
           \E shape \in (IF outcome = "data" THEN shapes ELSE {"null"}) :
             \E applied \in Applied(outcome, shape) :
               LET created == IF outcome = "data"
                                THEN CreatedResponse(rec, shape) ELSE EmptyDict
                   after == create_observable_created(
                              WithReplyHistory(inv[p], outcome, created, ""),
                              outcome, created)
               IN  /\ inv' = [inv EXCEPT ![p] = after]
                   /\ store' = IF applied THEN Append(store, rec) ELSE store
                   /\ createdLog' =
                        IF after.outcome = "result"
                          THEN createdLog \cup
                                 {[target |-> Lower(Strip(after.value)),
                                   value |-> after.value,
                                   kind |-> after.kind,
                                   id |-> after.result.id]}
                          ELSE createdLog
  /\ UNCHANGED <<environ, settings, lastCall, started>>

\* What an askEnrichment answer can carry as the work's id: an id, no id
\* (a null or empty block, or a block without the key), a null id.
WorkIds == {"work-1", "<absent>", "<null>"}

\* The enrichment request of an ask_virustotal_enrichment invocation is
\* answered.
AskEnrichmentEnriched(p) ==
  /\ inv[p].pc = "enrich"
  /\ \E outcome \in GraphqlOutcomes :
       \E work_id \in (IF outcome = "data" THEN WorkIds ELSE {"<absent>"}) :
         inv' = [inv EXCEPT ![p] =
                   ask_virustotal_enrichment_enriched(
                     WithReplyHistory(inv[p], outcome, EmptyDict, work_id),
                     outcome, work_id)]
  /\ UNCHANGED <<store, environ, settings, lastCall, started, createdLog>>

\* The invocation's result or error has been delivered; the slot is free.
Finished(p) ==
  /\ inv[p].pc = "done"
  /\ inv' = [inv EXCEPT ![p] = IdleCtx]
  /\ UNCHANGED <<store, environ, settings, lastCall, started, createdLog>>

StartState(stores, connectors) ==
  /\ store \in stores
  /\ environ \in {Environ(c) : c \in connectors}
  /\ settings = from_env(environ)
  /\ lastCall = NoCall
  /\ inv = [p \in Procs |-> IdleCtx]
  /\ started = 0
  /\ createdLog = {}

\* Two concurrent callers on a store that is empty or holds example.com.
Init == StartState({EmptyStore, SeededStore}, ConnectorIds)

Next ==
  \E p \in Procs :
    \/ CreateObservableCalled(p, Inputs, MaxInvocations)
    \/ AskEnrichmentCalled(p, Inputs, MaxInvocations)
    \/ CreateObservableSearched(p, GraphqlOutcomes)
    \/ AskEnrichmentSearched(p)
    \/ CreateObservableCreated(p, GraphqlOutcomes, CreateShapes)
    \/ AskEnrichmentEnriched(p)
    \/ Finished(p)

Spec == Init /\ [][Next]_vars

\* One caller at a time on a store that holds more than one page of
\* candidates for example.com.
InitCrowded == StartState({CrowdedStore}, ConnectorIds)

NextCrowded ==
  \/ CreateObservableCalled(1, Inputs, MaxInvocations)
  \/ AskEnrichmentCalled(1, Inputs, MaxInvocations)
  \/ CreateObservableSearched(1, GraphqlOutcomes)
  \/ AskEnrichmentSearched(1)
  \/ CreateObservableCreated(1, GraphqlOutcomes, CreateShapes)
  \/ AskEnrichmentEnriched(1)
  \/ Finished(1)

SpecCrowded == InitCrowded /\ [][NextCrowded]_vars

\* Callers of create_observable racing for the same values on an empty
\* store, followed by a later caller.
InitRace == StartState({EmptyStore}, {"connector-vt"})

\* In the race the transport either reports an error or answers.
RaceOutcomes == {"errors", "data"}
RaceShapes == {"record", "null"}

NextRace ==
  \E p \in Procs :
    \/ CreateObservableCalled(p, RaceInputs, MaxRaceInvocations)
    \/ CreateObservableSearched(p, RaceOutcomes)
    \/ CreateObservableCreated(p, RaceOutcomes, RaceShapes)
    \/ Finished(p)

SpecRace == InitRace /\ [][NextRace]_vars

\* A process whose settings have not been loaded yet, and whose
\* environment changes while it serves one caller at a time.
MaxSettingsInvocations == 3

SettingsInputs ==
  { Input(ExampleCom, PyNone), Input(Ip8888, PyNone), Input(Spaces, PyNone) }

\* os.environ is given another value for VIRUSTOTAL_CONNECTOR_ID, or loses
\* the variable.
EnvironChanged ==
  /\ \E c \in ConnectorIds :
       /\ Environ(c) # environ
       /\ environ' = Environ(c)
  /\ UNCHANGED <<store, settings, lastCall, inv, started, createdLog>>

InitSettings ==
  /\ store \in {EmptyStore, SeededStore}
  /\ environ \in {Environ(c) : c \in ConnectorIds}
  /\ settings = NotLoaded
  /\ lastCall = NoCall
  /\ inv = [p \in Procs |-> IdleCtx]
  /\ started = 0
  /\ createdLog = {}

NextSettings ==
  \/ EnvironChanged
  \/ CreateObservableCalled(1, SettingsInputs, MaxSettingsInvocations)
  \/ AskEnrichmentCalled(1, SettingsInputs, MaxSettingsInvocations)
  \/ CreateObservableSearched(1, RaceOutcomes)
  \/ AskEnrichmentSearched(1)
  \/ CreateObservableCreated(1, RaceOutcomes, RaceShapes)
  \/ AskEnrichmentEnriched(1)
  \/ Finished(1)

SpecSettings == InitSettings /\ [][NextSettings]_vars

\* ------------------------------------------------------------------------
\* observables.py applied to sample strings
\* ------------------------------------------------------------------------

Ipv4Example == <<"1","9","2",".","1","6","8",".","1",".","1">>
Ipv6Example == <<"2","0","0","1",":","d","b","8",":",":","1">>
Ipv6ExamplePadded == <<" ","2","0","0","1",":","d","b","8",":",":","1","\n">>
PrecedenceExample == <<"d","4","1","d","8","c","d","9","8","f","0","0","b","2","0","4","e","9","8","0","0","9","9","8","e","c","f","8","4","2","7">>
DocstringHash == <<"d","4","1","d","8","c","d","9","8","f","0","0","b","2","0","4","e","9","8","0","0","9","9","8","e","c","f","8","4","2","7","e">>
BadLeadingHyphen == <<"-","b","a","d",".","c","o","m">>
BadTrailingHyphen == <<"b","a","d","-",".","c","o","m">>
Localhost == <<"l","o","c","a","l","h","o","s","t">>

\* Strings that ipaddress.ip_address parses.
AddressLiterals ==
  { <<"1","9","2",".","1","6","8",".","1",".","1">>,
    <<"2","0","0","1",":","d","b","8",":",":","1">>,
    <<"8",".","8",".","8",".","8">>,
    <<"0",".","0",".","0",".","0">>,
    <<"2","5","5",".","2","5","5",".","2","5","5",".","2","5","5">>,
    <<":",":","1">>,
    <<":",":">>,
    <<"1",":",":">>,
    <<"1",":","2",":","3",":","4",":","5",":","6",":","7",":","8">>,
    <<":",":","f","f","f","f",":","1",".","2",".","3",".","4">>,
    <<"f","e","8","0",":",":","1","%","e","t","h","0">>,
    <<"A","B","C","D",":","E","F","0","1",":",":">>,
    <<"1",":",":","2",":","3",":","4",":","5",":","6",":","7">> }

\* Other samples: near-addresses, host names and their near-misses,
\* padded and blank strings.
OtherSamples ==
  { <<>>,
    <<"\t","e","x","a","m","p","l","e",".","c","o","m","\n">>,
    <<"\n">>,
    <<" ">>,
    <<" "," ">>,
    <<" ","1","9","2",".","1","6","8",".","1",".","1"," ">>,
    <<" ","2","0","0","1",":","d","b","8",":",":","1","\n">>,
    <<" ","d","4","1","d","8","c","d","9","8","f","0","0","b","2","0","4","e","9","8","0","0","9","9","8","e","c","f","8","4","2","7","e"," ">>,
    <<" ","l","o","c","a","l","h","o","s","t">>,
    <<"-","b","a","d",".","c","o","m">>,
    <<".","e","x","a","m","p","l","e",".","c","o","m">>,
    <<"1",".","2",".","3">>,
    <<"1",".","2",".","3",".">>,
    <<"1",".","2",".","3",".","1","2","3","4">>,
    <<"1",".","2",".","3",".","4",".","5">>,
    <<"1",".","2",".","3",".","4","/","2","4">>,
    <<"1",".","2",".","3",".","4","a">>,
    <<"1",".","2",".","3",".","c","o","m">>,
    <<"1","2","3","4","5",":",":">>,
    <<"1","9","2",".","1","6","8",".","0","1",".","1">>,
    <<"1",":","2",":","3",":","4",":","5",":","6",":","7">>,
    <<"1",":","2",":","3",":","4",":","5",":","6",":","7",":","8",":","9">>,
    <<"1",":",":","2",":",":","3">>,
    <<"2","5","6",".","1",".","1",".","1">>,
    <<":","1",":","2",":","3",":","4",":","5",":","6",":","7",":","8">>,
    <<":",":","1",".","2",".","3">>,
    <<":",":","1",".","2",".","3",".","4",".","5">>,
    <<":",":",":">>,
    <<":",":","g">>,
    <<"D","4","1","D","8","C","D","9","8","F","0","0","B","2","0","4","E","9","8","0","0","9","9","8","E","C","F","8","4","2","7","E","\n">>,
    <<"E","x","a","m","p","l","e",".","C","O","M">>,
    <<"a","-",".","b",".","c","o","m">>,
    <<"a",".","b",".","c",".","d">>,
    <<"a",".","b",".","c",".","e","x","a","m","p","l","e",".","c","o","m">>,
    <<"a",".","c","o">>,
    <<"a",":","b",".","c","o","m">>,
    <<"b","a","-","d",".","c","o","m">>,
    <<"b","a","d","-",".","c","o","m">>,
    <<"b","a","d",".","-","c","o","m",".","o","r","g">>,
    <<"b","a","d",".","c","o","m","-",".","o","r","g">>,
    <<"c","o","m">>,
    <<"d","4","1","d","8","c","d","9","8","f","0","0","b","2","0","4","e","9","8","0","0","9","9","8","e","c","f","8","4","2","7">>,
    <<"d","4","1","d","8","c","d","9","8","f","0","0","b","2","0","4","e","9","8","0","0","9","9","8","e","c","f","8","4","2","7","e">>,
    <<"d","e","a","d",".","b","e","e","f">>,
    <<"d","e","a","d","b","e","e","f",".","1","2","3">>,
    <<"e","x","a"," ","m","p","l","e",".","c","o","m">>,
    <<"e","x","a","_","m","p","l","e",".","c","o","m">>,
    <<"e","x","a","m","p","l","e",".",".","c","o","m">>,
    <<"e","x","a","m","p","l","e",".","c","o","-","m">>,
    <<"e","x","a","m","p","l","e",".","c","o","m">>,
    <<"e","x","a","m","p","l","e",".","c","o","m",".">>,
    <<"f","e","8","0",":",":","1","%">>,
    <<"g","o","o","d",".","c">>,
    <<"g","o","o","d",".","c","0","m">>,
    <<"l","o","c","a","l","h","o","s","t">>,
    <<"n","o","t"," ","a"," ","v","a","l","u","e","!","!">>,
    <<"x","n","-","-","p","1","a","i",".","c","o","m">> }

\* Hexadecimal strings of every length up to MaxHexLength, in three fills
\* and one mixed-case form.
MaxHexLength == 130

HexFills == {"a", "F", "7"}

HexStrings ==
  {Repeat(c, n) : c \in HexFills, n \in 1..MaxHexLength}
    \cup {<<"d", "E">> \o Repeat("0", n) : n \in 0..(MaxHexLength - 2)}

\* Strings of the hash lengths, and of the lengths next to them, that are
\* not hexadecimal.
NonHexStrings ==
  {Repeat("g", n + d) : n \in {32, 40, 64, 128}, d \in {-1, 0, 1}}
    \cup {Repeat("a", n - 1) \o <<"x">> : n \in {32, 40, 64, 128}}
    \cup {Repeat("a", n - 2) \o <<".", "b">> : n \in {32, 40, 64, 128}}

\* Host names label.tld for every label length up to MaxLabelLength and
\* final labels of 1, 2, 63 and 64 letters; the same after a first label.
MaxLabelLength == 65

TldLengths == {1, 2, 63, 64}

HostNames ==
  {Repeat("a", n) \o <<".">> \o Repeat("z", m) :
     n \in 1..MaxLabelLength, m \in TldLengths}
    \cup {<<"w", ".">> \o Repeat("9", n) \o <<".", "o", "r", "g">> :
            n \in 1..MaxLabelLength}

ObservableSamples ==
  AddressLiterals \cup OtherSamples \cup HexStrings \cup NonHexStrings \cup HostNames

Application(fn, arg, kind, accepted, algorithm) ==
  [fn |-> fn, arg |-> arg, kind |-> kind, accepted |-> accepted,
   algorithm |-> algorithm]

\* A string has been drawn and no function applied to it yet.
Drawn(value) == Application("", value, <<>>, FALSE, "")

InferObservableTypeCalled ==
  /\ lastCall.fn = ""
  /\ lastCall' = Application("infer_observable_type", lastCall.arg,
                             infer_observable_type(lastCall.arg), FALSE, "")
  /\ UNCHANGED <<store, environ, settings, inv, started, createdLog>>

\* The tests are applied as infer_observable_type applies them, and
\* get_hash_algorithm as the client does: to the trimmed string.
IsIpAddressCalled ==
  /\ lastCall.fn = ""
  /\ LET candidate == Strip(lastCall.arg)
     IN  lastCall' = Application("_is_ip_address", candidate, <<>>,
                                 IsIpAddress(candidate), "")
  /\ UNCHANGED <<store, environ, settings, inv, started, createdLog>>

IsHashCalled ==
  /\ lastCall.fn = ""
  /\ LET candidate == Strip(lastCall.arg)
     IN  lastCall' = Application("_is_hash", candidate, <<>>,
                                 IsHash(candidate), "")
  /\ UNCHANGED <<store, environ, settings, inv, started, createdLog>>

IsDomainCalled ==
  /\ lastCall.fn = ""
  /\ LET candidate == Strip(lastCall.arg)
     IN  lastCall' = Application("_is_domain", candidate, <<>>,
                                 IsDomain(candidate), "")
  /\ UNCHANGED <<store, environ, settings, inv, started, createdLog>>

GetHashAlgorithmCalled ==
  /\ lastCall.fn = ""
  /\ LET hash_value == Strip(lastCall.arg)
     IN  lastCall' = Application("get_hash_algorithm", hash_value, <<>>, FALSE,
                                 get_hash_algorithm(hash_value))
  /\ UNCHANGED <<store, environ, settings, inv, started, createdLog>>

InitObservables ==
  /\ store = EmptyStore
  /\ environ = Environ("connector-vt")
  /\ settings = from_env(environ)
  /\ lastCall \in {Drawn(value) : value \in ObservableSamples}
  /\ inv = [p \in Procs |-> IdleCtx]
  /\ started = 0
  /\ createdLog = {}

NextObservables ==
  \/ InferObservableTypeCalled
  \/ IsIpAddressCalled
  \/ IsHashCalled
  \/ IsDomainCalled
  \/ GetHashAlgorithmCalled

SpecObservables == InitObservables /\ [][NextObservables]_vars

\* ------------------------------------------------------------------------
\* client.py: the match engine applied to sample answers
\* ------------------------------------------------------------------------

NoneWord == <<"n","o","n","e">>
ExampleComUpper == <<"E","X","A","M","P","L","E",".","c","o","m">>
NonesuchBin == <<"n","o","n","e","s","u","c","h",".","b","i","n">>

\* Nodes a stixCyberObservables answer can hold: records whose texts differ
\* from the search term in letter case only, records found through a hash
\* entry or a name, records with null or missing fields, and a null node.
SampleNodes ==
  { Node("d-1", "Domain-Name", ExampleComUpper, ExampleComUpper, Absent, <<>>),
    Node("d-2", "Domain-Name", ExampleCom, ExampleCom, Absent, <<>>),
    Node("d-3", "Domain-Name", <<"a", ".">> \o ExampleCom,
         <<"a", ".">> \o ExampleCom, Absent, <<>>),
    Node("a-1", "Artifact", PyNone, Absent, Absent,
         <<[algorithm |-> "MD5", hash |-> Md5Upper]>>),
    Node("f-1", "StixFile", Absent, Absent, ExampleComUpper, <<>>),
    Node("f-2", "StixFile", NonesuchBin, Absent, PyNone, <<>>),
    Node("f-3", "StixFile", PyNone, Absent, PyNone, <<>>),
    NullNode }

\* The values the tools search for, trimmed.
SampleValues == {ExampleCom, Strip(ExampleComPadded), Md5Lower, NoneWord, NotAValue}

\* Answers hold up to MaxCandidates nodes, in any order.
MaxCandidates == 3

SampleAnswers ==
  UNION {{e \in [1..n -> SampleNodes] : \A i, j \in 1..n : i # j => e[i] # e[j]} :
           n \in 0..MaxCandidates}

Matching(fn, value, edges, node) ==
  [fn |-> fn, value |-> value, edges |-> edges, node |-> node]

FindObservableByValueCalled ==
  /\ lastCall.fn = ""
  /\ lastCall' = Matching("find_observable_by_value", lastCall.value, lastCall.edges,
                          find_observable_by_value(lastCall.value, lastCall.edges))
  /\ UNCHANGED <<store, environ, settings, inv, started, createdLog>>

\* The match of the first edge of the answer, as the loop calls it.
MatchObservableNodeCalled ==
  /\ lastCall.fn = ""
  /\ lastCall.edges # <<>>
  /\ lastCall' = Matching("_match_observable_node", lastCall.value,
                          <<lastCall.edges[1]>>,
                          match_observable_node(lastCall.edges[1],
                                                Lower(lastCall.value)))
  /\ UNCHANGED <<store, environ, settings, inv, started, createdLog>>

InitMatch ==
  /\ store = EmptyStore
  /\ environ = Environ("connector-vt")
  /\ settings = from_env(environ)
  /\ lastCall \in {Matching("", value, edges, EmptyDict) :
                     value \in SampleValues, edges \in SampleAnswers}
  /\ inv = [p \in Procs |-> IdleCtx]
  /\ started = 0
  /\ createdLog = {}

NextMatch ==
  \/ FindObservableByValueCalled
  \/ MatchObservableNodeCalled

SpecMatch == InitMatch /\ [][NextMatch]_vars

\* ------------------------------------------------------------------------
\* The tools on records whose value fields are partly missing
\* ------------------------------------------------------------------------

MaxFieldInvocations == 2

\* Records that carry their value in the value field only, in the name
\* field only, and in a hash entry only.
ValueOnlyRecord ==
  Node("d-1", "Domain-Name", EmptyString, ExampleComUpper, Absent, <<>>)

NameOnlyRecord == Node("i-1", "IPv4-Addr", PyNone, Absent, Ip8888, <<>>)

HashOnlyRecord ==
  Node("a-1", "Artifact", PyNone, Absent, Absent,
       <<[algorithm |-> "MD5", hash |-> Md5Upper]>>)

\* A record whose value field is spelled otherwise than its display value.
BothFieldsRecord ==
  Node("d-2", "Domain-Name", ExampleCom, ExampleComUpper, Absent, <<>>)

FieldsStore ==
  <<ValueOnlyRecord, NameOnlyRecord, HashOnlyRecord, BothFieldsRecord>>

FieldInputs ==
  { Input(Ip8888, PyNone), Input(Ipv6ExamplePadded, PyNone),
    Input(Ipv6Example, KindIp), Input(ExampleComPadded, PyNone),
    Input(Md5Lower, PyNone), Input(ExampleCom, KindHash),
    Input(ExampleCom, KindIp) }

\* The mutation answers with the record, or with the record and a null
\* observable_value.
FieldShapes == {"record", "blank_value"}

InitFields == StartState({EmptyStore, SeededStore, FieldsStore}, {"connector-vt"})

NextFields ==
  \/ CreateObservableCalled(1, FieldInputs, MaxFieldInvocations)
  \/ AskEnrichmentCalled(1, FieldInputs, MaxFieldInvocations)
  \/ CreateObservableSearched(1, RaceOutcomes)
  \/ AskEnrichmentSearched(1)
  \/ CreateObservableCreated(1, RaceOutcomes, FieldShapes)
  \/ AskEnrichmentEnriched(1)
  \/ Finished(1)

SpecFields == InitFields /\ [][NextFields]_vars

\* ------------------------------------------------------------------------
\* server.py: get_entity, the collection search tools and the per-entity
\* listing tools
\* ------------------------------------------------------------------------

\* What an answer's data holds under the key a tool reads: the key is
\* missing, its value is null, or it is an object ({} or an entity with or
\* without an entity_type).
Value(shape, id, entity_type) == [shape |-> shape, id |-> id, entity_type |-> entity_type]

MissingKey == Value("missing", "<absent>", "<absent>")
NullValue  == Value("null", "<absent>", "<absent>")
EmptyValue == Value("dict", "<absent>", "<absent>")

\* Python truthiness of data.get(key).
TruthyValue(v) == v.shape = "dict" /\ v # EmptyValue

\* The tool's local state.  client tells whether _build_client has run;
\* calls and answers are history: the queries issued with their variables,
\* and what each was answered.
IdleQuery ==
  [pc |-> "idle", op |-> "", tool |-> "", entity_type |-> "", entity_id |-> "",
   search |-> PyNone, limit |-> 0, client |-> FALSE,
   calls |-> <<>>, answers |-> <<>>,
   outcome |-> "", result |-> MissingKey, error |-> NoError]

QueryCall(query, variables) == [query |-> query, variables |-> variables]

Answer(outcome, value) == [outcome |-> outcome, value |-> value]

\* get_entity's queries, in the order of its loop.
EntityLookups ==
  << [key |-> "stixCoreObject",       query |-> "CORE_OBJECT_QUERY"],
     [key |-> "stixCoreRelationship", query |-> "CORE_RELATIONSHIP_QUERY"],
     [key |-> "stixCyberObservable",  query |-> "CYBER_OBSERVABLE_QUERY"] >>

EntityNotFound == ToolError("No entity found with id")

\* get_entity up to its first await.
get_entity_begin(ctx) ==
  [ctx EXCEPT !.pc = "lookup", !.client = TRUE,
              !.calls = <<QueryCall(EntityLookups[1].query, [id |-> ctx.entity_id])>>]

\* `if entity_type and fetched_type and fetched_type != entity_type`
TypeMismatch(entity_type, fetched_type) ==
  /\ entity_type # ""
  /\ fetched_type \notin {"<absent>", "<null>", ""}
  /\ fetched_type # entity_type

\* After the last query, or when a query is not the last: the not-found
\* error, or the next query.
get_entity_continue(ctx) ==
  IF Len(ctx.calls) = Len(EntityLookups)
    THEN Raise(ctx, EntityNotFound)
    ELSE [ctx EXCEPT !.calls = Append(@, QueryCall(EntityLookups[Len(ctx.calls) + 1].query,
                                                   [id |-> ctx.entity_id]))]

\* Variant of get_entity that returns the first entity found, whatever its
\* type.
get_entity_answered_unvalidated(ctx, outcome, value) ==
  IF graphql_query(outcome) # NoError
    THEN Raise(ctx, ExceptApiError(graphql_query(outcome),
                                   "Failed to fetch entity from OpenCTI."))
  ELSE IF TruthyValue(value)
    THEN Return(ctx, value)
    ELSE get_entity_continue(ctx)

\* One turn of get_entity's loop, from a query's answer to the return, the
\* raise or the next await.
get_entity_answered(ctx, outcome, value) ==
  IF graphql_query(outcome) # NoError
    THEN Raise(ctx, ExceptApiError(graphql_query(outcome),
                                   "Failed to fetch entity from OpenCTI."))
  ELSE IF TruthyValue(value) /\ ~TypeMismatch(ctx.entity_type, value.entity_type)
    THEN Return(ctx, value)
    ELSE get_entity_continue(ctx)

\* COLLECTION_QUERIES: the result key of each collection.
COLLECTION_QUERIES(name) ==
  CASE name = "indicators"      -> "indicators"
    [] name = "threat_actors"   -> "threatActors"
    [] name = "intrusion_sets"  -> "intrusionSets"
    [] name = "campaigns"       -> "campaigns"
    [] name = "malware"         -> "malwares"
    [] name = "attack_patterns" -> "attackPatterns"
    [] name = "infrastructures" -> "infrastructures"
    [] name = "vulnerabilities" -> "vulnerabilities"
    [] name = "reports"         -> "reports"
    [] name = "tools"           -> "tools"
    [] name = "incidents"       -> "incidents"

CollectionTools ==
  {"indicators", "threat_actors", "intrusion_sets", "campaigns", "malware",
   "attack_patterns", "infrastructures", "vulnerabilities", "reports", "tools",
   "incidents"}

LimitError == ToolError("Parameter 'limit' must be greater than zero.")

\* Variant of _execute_collection_query that rejects negative limits only.
execute_collection_query_begin_accepting_zero(ctx) ==
  IF ctx.limit < 0
    THEN Raise(ctx, LimitError)
    ELSE [ctx EXCEPT !.pc = "query", !.client = TRUE,
                     !.calls = <<QueryCall(COLLECTION_QUERIES(ctx.tool),
                                           IF Truthy(GetOrNone(ctx.search))
                                             THEN [first |-> ctx.limit, search |-> ctx.search]
                                             ELSE [first |-> ctx.limit])>>]

\* _execute_collection_query up to its await.
execute_collection_query_begin(ctx) ==
  IF ctx.limit <= 0
    THEN Raise(ctx, LimitError)
    ELSE [ctx EXCEPT !.pc = "query", !.client = TRUE,
                     !.calls = <<QueryCall(COLLECTION_QUERIES(ctx.tool),
                                           IF Truthy(GetOrNone(ctx.search))
                                             THEN [first |-> ctx.limit, search |-> ctx.search]
                                             ELSE [first |-> ctx.limit])>>]

\* _execute_collection_query from the answer on.
execute_collection_query_answered(ctx, outcome, value) ==
  IF graphql_query(outcome) # NoError
    THEN Raise(ctx, ExceptApiError(graphql_query(outcome),
                                   "OpenCTI API error during query."))
  ELSE IF value.shape = "missing"
    THEN Raise(ctx, ToolError("Unexpected OpenCTI response: missing key"))
    ELSE Return(ctx, value)

\* The per-entity listing tools and their queries.
ListingTools ==
  {"get_entity_relationships", "get_indicators_by_entity",
   "get_attack_patterns_by_entity", "get_entity_observables", "get_entity_notes"}

ListingQuery(tool) ==
  CASE tool = "get_entity_relationships"      -> "ENTITY_RELATIONSHIPS_QUERY"
    [] tool = "get_indicators_by_entity"      -> "ENTITY_INDICATORS_QUERY"
    [] tool = "get_attack_patterns_by_entity" -> "ENTITY_ATTACK_PATTERNS_QUERY"
    [] tool = "get_entity_observables"        -> "ENTITY_OBSERVABLES_QUERY"
    [] tool = "get_entity_notes"              -> "ENTITY_NOTES_QUERY"

ListingFailure(tool) ==
  CASE tool = "get_entity_relationships" ->
         "Failed to fetch entity relationships from OpenCTI."
    [] tool = "get_indicators_by_entity" ->
         "Failed to fetch entity indicators from OpenCTI."
    [] tool = "get_attack_patterns_by_entity" ->
         "Failed to fetch entity attack patterns from OpenCTI."
    [] tool = "get_entity_observables" ->
         "Failed to fetch entity observables from OpenCTI."
    [] tool = "get_entity_notes" ->
         "Failed to fetch entity notes from OpenCTI."

\* A listing tool up to its await.
entity_listing_begin(ctx) ==
  IF ctx.limit <= 0
    THEN Raise(ctx, LimitError)
    ELSE [ctx EXCEPT !.pc = "query", !.client = TRUE,
                     !.calls = <<QueryCall(ListingQuery(ctx.tool),
                                           [id |-> ctx.entity_id, first |-> ctx.limit])>>]

\* A listing tool from the answer on.
entity_listing_answered(ctx, outcome, value) ==
  IF graphql_query(outcome) # NoError
    THEN Raise(ctx, ExceptApiError(graphql_query(outcome), ListingFailure(ctx.tool)))
  ELSE IF ~TruthyValue(value)
    THEN Raise(ctx, EntityNotFound)
    ELSE Return(ctx, value)

\* Arguments of the tools and answers of the store.
MaxQueryInvocations == 2

RequestedTypes == {"Malware", ""}

SearchTerms == {PyNone, EmptyString, Spaces, <<"a","p","t">>}

Limits == {-1, 0, 1, 25}

AnsweredValues ==
  {MissingKey, NullValue, EmptyValue,
   Value("dict", "id-1", "Malware"), Value("dict", "id-1", "Report"),
   Value("dict", "id-1", "<absent>")}

NewQuery(op, tool, entity_type, search, limit) ==
  [IdleQuery EXCEPT !.op = op, !.tool = tool, !.entity_type = entity_type,
                    !.entity_id = "id-1", !.search = search, !.limit = limit]

WithAnswer(ctx, outcome, value) ==
  [ctx EXCEPT !.answers = Append(@, Answer(outcome, value))]

\* What the transport and the store can answer a query with.
QueryAnswers ==
  {Answer(outcome, MissingKey) : outcome \in GraphqlOutcomes \ {"data"}}
    \cup {Answer("data", value) : value \in AnsweredValues}

\* A caller invokes get_entity; _build_client calls get_settings.
GetEntityCalled ==
  /\ inv[1].pc = "idle"
  /\ started < MaxQueryInvocations
  /\ \E entity_type \in RequestedTypes :
       inv' = [inv EXCEPT ![1] =
                 get_entity_begin(NewQuery("get_entity", "get_entity",
                                           entity_type, PyNone, 0))]
  /\ settings' = get_settings(settings, environ)
  /\ started' = started + 1
  /\ UNCHANGED <<store, environ, lastCall, createdLog>>

\* A query of get_entity is answered.
GetEntityAnswered ==
  /\ inv[1].pc = "lookup"
  /\ \E a \in QueryAnswers :
       inv' = [inv EXCEPT ![1] =
                 get_entity_answered(WithAnswer(inv[1], a.outcome, a.value),
                                     a.outcome, a.value)]
  /\ UNCHANGED <<store, environ, settings, lastCall, started, createdLog>>

\* A caller invokes one of the collection search tools.
CollectionSearchCalled ==
  /\ inv[1].pc = "idle"
  /\ started < MaxQueryInvocations
  /\ \E tool \in CollectionTools, search \in SearchTerms, limit \in Limits :
       LET begun == execute_collection_query_begin(
                      NewQuery("collection", tool, "", search, limit))
       IN  /\ inv' = [inv EXCEPT ![1] = begun]
           /\ settings' = IF begun.client
                             THEN get_settings(settings, environ) ELSE settings
  /\ started' = started + 1
  /\ UNCHANGED <<store, environ, lastCall, createdLog>>

\* The query of a collection search tool is answered.
CollectionSearchAnswered ==
  /\ inv[1].pc = "query"
  /\ inv[1].op = "collection"
  /\ \E a \in QueryAnswers :
       inv' = [inv EXCEPT ![1] =
                 execute_collection_query_answered(
                   WithAnswer(inv[1], a.outcome, a.value), a.outcome, a.value)]
  /\ UNCHANGED <<store, environ, settings, lastCall, started, createdLog>>

\* A caller invokes one of the per-entity listing tools.
EntityListingCalled ==
  /\ inv[1].pc = "idle"
  /\ started < MaxQueryInvocations
  /\ \E tool \in ListingTools, limit \in Limits :
       LET begun == entity_listing_begin(NewQuery("listing", tool, "", PyNone, limit))
       IN  /\ inv' = [inv EXCEPT ![1] = begun]
           /\ settings' = IF begun.client
                             THEN get_settings(settings, environ) ELSE settings
  /\ started' = started + 1
  /\ UNCHANGED <<store, environ, lastCall, createdLog>>

\* The query of a listing tool is answered.
EntityListingAnswered ==
  /\ inv[1].pc = "query"
  /\ inv[1].op = "listing"
  /\ \E a \in QueryAnswers :
       inv' = [inv EXCEPT ![1] =
                 entity_listing_answered(
                   WithAnswer(inv[1], a.outcome, a.value), a.outcome, a.value)]
  /\ UNCHANGED <<store, environ, settings, lastCall, started, createdLog>>

\* The invocation has returned or raised; its slot is free again.
QueryFinished ==
  /\ inv[1].pc = "done"
  /\ inv' = [inv EXCEPT ![1] = IdleQuery]
  /\ UNCHANGED <<store, environ, settings, lastCall, started, createdLog>>

\* A process that has not built a client yet.
InitQueries ==
  /\ store = EmptyStore
  /\ environ = Environ("connector-vt")
  /\ settings = NotLoaded
  /\ lastCall = NoCall
  /\ inv = [p \in Procs |-> IdleQuery]
  /\ started = 0
  /\ createdLog = {}

NextQueries ==
  \/ GetEntityCalled
  \/ GetEntityAnswered
  \/ CollectionSearchCalled
  \/ CollectionSearchAnswered
  \/ EntityListingCalled
  \/ EntityListingAnswered
  \/ QueryFinished

SpecQueries == InitQueries /\ [][NextQueries]_vars

\* ------------------------------------------------------------------------
\* Vocabulary of the properties
\* ------------------------------------------------------------------------

Creating(p) == inv[p].op = "create_observable"

Enriching(p) == inv[p].op = "ask_virustotal_enrichment"

\* The kinds of the external calls an invocation has issued, in order.
CallKinds(p) == [i \in DOMAIN inv[p].calls |-> inv[p].calls[i].call]

Issued(p, kind) == \E i \in DOMAIN inv[p].calls : inv[p].calls[i].call = kind

SearchFailed(p) == inv[p].search_outcome \in GraphqlOutcomes \ {"data"}

\* A candidate equals a value: one of its present value fields, or one of
\* its hashes, is the value up to letter case.
CandidateEquals(node, value) ==
  \/ \E f \in {node.observable_value, node.value, node.name} :
       Truthy(f) /\ Lower(f) = Lower(value)
  \/ \E i \in DOMAIN node.hashes : Lower(node.hashes[i].hash) = Lower(value)

\* The positions of the answer's candidates that equal the trimmed input.
MatchingEdges(p) ==
  {i \in DOMAIN inv[p].edges : CandidateEquals(inv[p].edges[i], Strip(inv[p].value))}

\* The search was answered and a candidate of the answer equals the input.
AnswerMatches(p) == inv[p].search_outcome = "data" /\ MatchingEdges(p) # {}

\* The search was answered and no candidate of the answer equals the input.
AnswerMisses(p) == inv[p].search_outcome = "data" /\ MatchingEdges(p) = {}

EmptyValueError == ToolError("Parameter 'value' must be a non-empty string.")
InvalidKindError == ToolError("Parameter 'value_type' must be one of: ip, domain, hash.")
AmbiguousInputError == ToolError("Unable to infer value type.")
NotFoundError == ToolError("No observable found matching value")

\* ------------------------------------------------------------------------
\* C1: every create_observable invocation ends in exactly one of: a result
\* with status "exists", a result with status "created", or an error.  No
\* result carries another status, nothing is returned before the end, and
\* when no candidate matched and the creation yielded no record the
\* invocation ends in an error.
\* ------------------------------------------------------------------------
C1_ExactlyOneOutcome ==
  \A p \in Procs : Creating(p) =>
    /\ inv[p].pc # "done" =>
         inv[p].outcome = "" /\ inv[p].result = NoResult /\ inv[p].error = NoError
    /\ inv[p].pc = "done" =>
         \/ /\ inv[p].outcome = "result"
            /\ inv[p].result.status \in {"exists", "created"}
            /\ inv[p].error = NoError
         \/ /\ inv[p].outcome = "error"
            /\ inv[p].error # NoError
            /\ inv[p].result = NoResult
    /\ (inv[p].pc = "done" /\ ~AnswerMatches(p) /\ ~TruthyNode(inv[p].reply_node))
         => inv[p].outcome = "error"

\* The search missed, the creation was answered with null, and the
\* invocation ended in an error.
C1_Witness ==
  \E p \in Procs :
    /\ Creating(p) /\ inv[p].pc = "done"
    /\ AnswerMisses(p)
    /\ CallKinds(p) = <<"search", "create">>
    /\ inv[p].reply_outcome = "data" /\ inv[p].reply_node = NullNode
    /\ inv[p].outcome = "error"

\* ------------------------------------------------------------------------
\* C2: a creation call is issued only when the store holds no record of
\* the kind's record types whose value or hash equals the trimmed input
\* ignoring case (the store as it was when it answered the search).
\* ------------------------------------------------------------------------
C2_CreateOnlyIfNoneHeld ==
  \A p \in Procs : (Creating(p) /\ Issued(p, "create")) => inv[p].held = {}

\* ------------------------------------------------------------------------
\* C3: a creation call is issued only after the search of the same
\* invocation was answered without failure and with no matching candidate;
\* on a matching candidate the result is "exists" and no creation call is
\* issued; when the search fails no creation call is issued.
\* ------------------------------------------------------------------------
C3_CreateOnlyAfterMiss ==
  \A p \in Procs : Creating(p) =>
    /\ Issued(p, "create") =>
         /\ CallKinds(p) = <<"search", "create">>
         /\ AnswerMisses(p)
    /\ AnswerMatches(p) =>
         /\ inv[p].pc = "done"
         /\ inv[p].outcome = "result"
         /\ inv[p].result.status = "exists"
         /\ CallKinds(p) = <<"search">>
    /\ SearchFailed(p) =>
         /\ inv[p].pc = "done"
         /\ inv[p].outcome = "error"
         /\ CallKinds(p) = <<"search">>

\* One invocation found its value and returned "exists", another missed
\* and issued its creation call after its search.
C3_Witness ==
  \E p, q \in Procs :
    /\ Creating(p) /\ AnswerMatches(p) /\ inv[p].result.status = "exists"
    /\ Creating(q) /\ AnswerMisses(q) /\ CallKinds(q) = <<"search", "create">>

\* ------------------------------------------------------------------------
\* C4: idempotence across non-overlapping invocations.  An earlier
\* invocation returned "created" for the value and kind, and the answer to
\* this invocation's search holds the created record.
\* ------------------------------------------------------------------------

\* The "created" results, returned before invocation p started, for p's
\* value (up to letter case and surrounding whitespace) and kind, whose
\* record the store returned to p's search.
EarlierCreated(p) ==
  {e \in inv[p].prior :
     /\ e.target = Lower(Strip(inv[p].value))
     /\ e.kind = inv[p].kind
     /\ inv[p].search_outcome = "data"
     /\ \E i \in DOMAIN inv[p].edges : inv[p].edges[i].id = e.id}

FirstOf(S) == CHOOSE i \in S : \A j \in S : i <= j

\* C4 as stated: the later invocation returns "exists" with the identifier
\* of the record the earlier invocation created, and issues no creation.
C4_SameIdentifier ==
  \A p \in Procs : \A e \in EarlierCreated(p) :
    Creating(p) =>
      /\ inv[p].pc = "done"
      /\ inv[p].result.status = "exists"
      /\ inv[p].result.id = e.id
      /\ CallKinds(p) = <<"search">>

\* C4 as amended: the later invocation returns "exists" and issues no
\* creation call; the created record is one of the candidates equal to the
\* value, and the identifier returned is that of the first such candidate
\* of the answer.
C4_ExistsFirstMatch ==
  \A p \in Procs : \A e \in EarlierCreated(p) :
    Creating(p) =>
      /\ inv[p].pc = "done"
      /\ inv[p].outcome = "result"
      /\ inv[p].result.status = "exists"
      /\ CallKinds(p) = <<"search">>
      /\ e.id \in {inv[p].edges[i].id : i \in MatchingEdges(p)}
      /\ inv[p].result.id = inv[p].edges[FirstOf(MatchingEdges(p))].id

\* A hash created from one letter case is found again, under the same
\* identifier, by a later invocation that gives the other letter case.
C4_Witness ==
  \E p \in Procs : \E e \in EarlierCreated(p) :
    /\ Creating(p) /\ inv[p].pc = "done"
    /\ inv[p].kind = KindHash
    /\ e.value # inv[p].value
    /\ inv[p].result.status = "exists"
    /\ inv[p].result.id = e.id

\* ------------------------------------------------------------------------
\* C5: no at-most-once creation across concurrent callers.  Whether an
\* invocation issues its creation call is decided by its own search alone:
\* every invocation whose search missed, and whose value the kind can
\* carry, issues a creation call, whatever the other invocations have in
\* flight; every "created" result names a record of the store of its own.
\* The witness is the double creation.
\* ------------------------------------------------------------------------
C5_NoAtMostOnce ==
  /\ \A p \in Procs :
       ( /\ Creating(p)
         /\ AnswerMisses(p)
         /\ create_request(Strip(inv[p].value), inv[p].kind).raise = NoError )
       => CallKinds(p) = <<"search", "create">>
  /\ \A p \in Procs :
       (Creating(p) /\ inv[p].result.status = "created")
       => \E i \in DOMAIN store : store[i].id = inv[p].result.id
  /\ \A p, q \in Procs :
       ( /\ p # q
         /\ inv[p].result.status = "created"
         /\ inv[q].result.status = "created" )
       => inv[p].result.id # inv[q].result.id

\* Two overlapping invocations for one value both returned "created", and
\* the store holds two records for that value.
C5_Witness ==
  \E p, q \in Procs :
    /\ p # q
    /\ Creating(p) /\ inv[p].pc = "done" /\ inv[p].result.status = "created"
    /\ Creating(q) /\ inv[q].pc = "done" /\ inv[q].result.status = "created"
    /\ Lower(Strip(inv[p].value)) = Lower(Strip(inv[q].value))
    /\ \A e \in inv[p].prior \cup inv[q].prior :
         e.id \notin {inv[p].result.id, inv[q].result.id}
    /\ Cardinality({i \in DOMAIN store :
                      CandidateEquals(store[i], Strip(inv[p].value))}) = 2

\* ------------------------------------------------------------------------
\* C6: with no explicit kind and a value the classifier returns None for,
\* create_observable fails with the ambiguous-input error before any
\* external call, and no kind is guessed.
\* ------------------------------------------------------------------------

Unclassified(p) ==
  /\ Creating(p)
  /\ inv[p].pc # "idle"
  /\ inv[p].value_type = PyNone
  /\ infer_observable_type(inv[p].value) = PyNone

AmbiguousBeforeAnyCall(p) ==
  /\ inv[p].pc = "done"
  /\ inv[p].outcome = "error"
  /\ inv[p].error = AmbiguousInputError
  /\ inv[p].calls = <<>>
  /\ inv[p].kind = PyNone

\* C6 as stated.
C6_AmbiguousWheneverUnclassified ==
  \A p \in Procs : Unclassified(p) => AmbiguousBeforeAnyCall(p)

\* C6 as amended: for a value that is not empty or whitespace-only.
C6_AmbiguousWhenNotBlank ==
  \A p \in Procs :
    (Unclassified(p) /\ ~BlankValue(inv[p].value)) => AmbiguousBeforeAnyCall(p)

C6_Witness ==
  \E p \in Procs :
    /\ Unclassified(p)
    /\ inv[p].value = NotAValue
    /\ AmbiguousBeforeAnyCall(p)

\* ------------------------------------------------------------------------
\* C7: create_observable and ask_virustotal_enrichment reject an empty or
\* whitespace-only value with the invalid-input error first: before the
\* kind is resolved (or the connector looked at) and before any external
\* call.
\* ------------------------------------------------------------------------
C7_BlankRejectedFirst ==
  \A p \in Procs :
    (inv[p].pc # "idle" /\ BlankValue(inv[p].value)) =>
      /\ inv[p].pc = "done"
      /\ inv[p].outcome = "error"
      /\ inv[p].error = EmptyValueError
      /\ inv[p].calls = <<>>
      /\ inv[p].kind = PyNone

\* A blank value with an invalid kind given to create_observable, and a
\* blank value given to ask_virustotal_enrichment with no connector set.
C7_Witness ==
  \E p, q \in Procs :
    /\ Creating(p) /\ BlankValue(inv[p].value) /\ inv[p].value_type = KindUrl
    /\ inv[p].error = EmptyValueError
    /\ Enriching(q) /\ BlankValue(inv[q].value)
    /\ settings.virustotal_connector_id = "<None>"
    /\ inv[q].error = EmptyValueError

\* ------------------------------------------------------------------------
\* C8: an explicit kind is accepted if and only if it is ip, domain or
\* hash up to letter case; any other explicit kind fails with the
\* invalid-input error before any external call; an accepted kind wins
\* over inference: the search and the creation use its record types.
\* ------------------------------------------------------------------------

\* The invocation got as far as resolving the kind.
KindResolved(p) ==
  /\ inv[p].pc # "idle"
  /\ ~BlankValue(inv[p].value)
  /\ Enriching(p) => settings.virustotal_connector_id # "<None>"

ExplicitKindRules(p) ==
  IF Lower(inv[p].value_type) \in ObservableKinds
    THEN /\ inv[p].kind = Lower(inv[p].value_type)
         /\ inv[p].error # InvalidKindError
         /\ inv[p].error # AmbiguousInputError
         /\ inv[p].calls # <<>>
         /\ inv[p].calls[1].call = "search"
         /\ inv[p].calls[1].types = OBSERVABLE_TYPES(Lower(inv[p].value_type))
         /\ \A i \in DOMAIN inv[p].calls :
              inv[p].calls[i].call = "create" =>
                inv[p].calls[i].stix_type
                  \in Range(OBSERVABLE_TYPES(Lower(inv[p].value_type)))
    ELSE /\ inv[p].pc = "done"
         /\ inv[p].outcome = "error"
         /\ inv[p].error = InvalidKindError
         /\ inv[p].calls = <<>>

C9_EnrichNotFound ==
  \A p \in Procs :
    (Enriching(p) /\ AnswerMisses(p)) =>
      /\ inv[p].pc = "done"
      /\ inv[p].outcome = "error"
      /\ inv[p].error = NotFoundError
      /\ CallKinds(p) = <<"search">>

C9_Witness ==
  \E p \in Procs :
    /\ Enriching(p) /\ AnswerMisses(p)
    /\ inv[p].pc = "done" /\ inv[p].error = NotFoundError

\* ------------------------------------------------------------------------
\* C10: in ask_virustotal_enrichment, when the search returns a matching
\* candidate exactly one enrichment call is issued, after the search, with
\* the matched record's identifier and the configured connector; a result
\* carries the work identifier the remote returned; no creation call.
\* ------------------------------------------------------------------------
C10_EnrichOnMatch ==
  \A p \in Procs :
    (Enriching(p) /\ AnswerMatches(p)) =>
      /\ inv[p].pc \in {"enrich", "done"}
      /\ CallKinds(p) = <<"search", "enrich">>
      /\ inv[p].calls[2].id = inv[p].edges[FirstOf(MatchingEdges(p))].id
      /\ inv[p].calls[2].connector_id = settings.virustotal_connector_id
      /\ settings.virustotal_connector_id # "<None>"
      /\ inv[p].outcome = "result" =>
           /\ inv[p].reply_outcome = "data"
           /\ inv[p].work_id = inv[p].reply_work
           /\ inv[p].work_id # "<absent>"
           /\ inv[p].result.id = inv[p].calls[2].id

C10_Witness ==
  \E p \in Procs :
    /\ Enriching(p) /\ AnswerMatches(p)
    /\ inv[p].pc = "done" /\ inv[p].outcome = "result"
    /\ inv[p].work_id = "work-1"
    /\ inv[p].calls[2].id = "seed-1"

\* ------------------------------------------------------------------------
\* C11: when the enrichment-connector identifier is not set or is empty in
\* the environment, the settings hold no connector (none is substituted)
\* and every ask_virustotal_enrichment invocation fails without issuing
\* any external call.
\* ------------------------------------------------------------------------

ConnectorAbsent == environ.VIRUSTOTAL_CONNECTOR_ID \in {"<unset>", ""}

ConnectorNotConfiguredError == ToolError("VirusTotal connector not configured.")

C11_EnrichmentDisabled ==
  ConnectorAbsent =>
    /\ settings.virustotal_connector_id = "<None>"
    /\ \A p \in Procs :
         (Enriching(p) /\ inv[p].pc # "idle") =>
           /\ inv[p].pc = "done"
           /\ inv[p].outcome = "error"
           /\ inv[p].error.type = "ToolError"
           /\ ~BlankValue(inv[p].value) => inv[p].error = ConnectorNotConfiguredError
           /\ inv[p].calls = <<>>
           /\ inv[p].connector_id = ""

\* The variable is set to the empty string, and an invocation with a valid
\* value and kind failed for want of a connector.
C11_Witness ==
  /\ environ.VIRUSTOTAL_CONNECTOR_ID = ""
  /\ \E p \in Procs :
       /\ Enriching(p) /\ inv[p].pc = "done"
       /\ inv[p].value = Ip8888
       /\ inv[p].error = ConnectorNotConfiguredError
       /\ inv[p].calls = <<>>

\* ------------------------------------------------------------------------
\* C12: every failure of a search or mutation call, whatever its cause
\* (network, HTTP error status, malformed response, errors embedded in the
\* response), reaches the caller of create_observable and
\* ask_virustotal_enrichment as the tool error made by wrap_api_error.
\* ------------------------------------------------------------------------

TransportFailures == GraphqlOutcomes \ {"data"}

\* An external call of the invocation failed.
CallFailed(p) ==
  \/ inv[p].search_outcome \in TransportFailures
  \/ inv[p].reply_outcome \in TransportFailures

C12_UniformRemoteError ==
  \A p \in Procs :
    CallFailed(p) =>
      /\ inv[p].pc = "done"
      /\ inv[p].outcome = "error"
      /\ inv[p].error.type = "ToolError"

\* ------------------------------------------------------------------------
\* C13: a creation answered at the transport level without the created
\* record's identifier fails with an error of another kind than the error
\* raised for a failed remote call.
\* ------------------------------------------------------------------------

\* The creation was answered, and the answer holds no record identifier.
AnsweredWithoutId(p) ==
  /\ Creating(p)
  /\ inv[p].reply_outcome = "data"
  /\ \/ ~TruthyNode(inv[p].reply_node)
     \/ inv[p].reply_node.id \in {"<absent>", "<null>"}

C13_CreationFailedDistinct ==
  \A p, q \in Procs :
    ( /\ AnsweredWithoutId(p) /\ inv[p].pc = "done"
      /\ Creating(q) /\ inv[q].pc = "done"
      /\ inv[q].reply_outcome \in TransportFailures )
    => /\ inv[p].outcome = "error"
       /\ inv[q].outcome = "error"
       /\ inv[p].error.type # inv[q].error.type

\* ------------------------------------------------------------------------
\* C14: every result with status "created" carries the identifier of the
\* created record: whatever the creation answer holds (null, an empty
\* object, a record without id, a record with a null id), create_observable
\* fails or returns a result whose id is a non-null identifier.
\* ------------------------------------------------------------------------
C14_CreatedCarriesId ==
  \A p \in Procs :
    (Creating(p) /\ inv[p].pc = "done" /\ inv[p].reply_outcome = "data") =>
      \/ inv[p].outcome = "error"
      \/ /\ inv[p].result.status = "created"
         /\ inv[p].result.id \notin {"<null>", "<absent>", ""}

\* ------------------------------------------------------------------------
\* C15: no external call is retried.  A create_observable invocation
\* issues at most one search and then at most one creation; an
\* ask_virustotal_enrichment invocation issues at most one search and then
\* at most one enrichment; once an external call has failed the invocation
\* has ended and has issued nothing after the failed call.
\* ------------------------------------------------------------------------
C15_NoRetry ==
  \A p \in Procs :
    /\ Creating(p) =>
         CallKinds(p) \in {<<>>, <<"search">>, <<"search", "create">>}
    /\ Enriching(p) =>
         CallKinds(p) \in {<<>>, <<"search">>, <<"search", "enrich">>}
    /\ inv[p].search_outcome \in TransportFailures =>
         inv[p].pc = "done" /\ inv[p].outcome = "error" /\ Len(inv[p].calls) = 1
    /\ (inv[p].reply_outcome \in TransportFailures
          \/ (inv[p].reply_outcome = "data" /\ inv[p].outcome = "error")) =>
         inv[p].pc = "done" /\ Len(inv[p].calls) = 2

\* A search succeeded, the creation after it failed, and the invocation
\* ended there.
C15_Witness ==
  \E p \in Procs :
    /\ Creating(p) /\ inv[p].pc = "done"
    /\ inv[p].search_outcome = "data"
    /\ inv[p].reply_outcome \in TransportFailures
    /\ CallKinds(p) = <<"search", "create">>
    /\ inv[p].outcome = "error"

\* ------------------------------------------------------------------------
\* C16: infer_observable_type returns the kind of the first test the
\* trimmed input passes, in the order IP, hash, domain, and None when the
\* trimmed input is empty or passes no test; every address literal, such
\* as "192.168.1.1" and "2001:db8::1", classifies as ip.
\* ------------------------------------------------------------------------
C16_FirstRuleWins ==
  lastCall.fn = "infer_observable_type" =>
    LET trimmed == Strip(lastCall.arg)
    IN  /\ lastCall.kind =
             IF trimmed = <<>> THEN PyNone
             ELSE IF IsIpAddress(trimmed) THEN KindIp
             ELSE IF IsHash(trimmed) THEN KindHash
             ELSE IF IsDomain(trimmed) THEN KindDomain
             ELSE PyNone
        /\ trimmed \in AddressLiterals => lastCall.kind = KindIp

\* The IPv6 example, padded with whitespace, classified as ip.
C16_Witness ==
  /\ lastCall.fn = "infer_observable_type"
  /\ lastCall.arg = Ipv6ExamplePadded
  /\ Strip(lastCall.arg) = Ipv6Example
  /\ lastCall.kind = KindIp

\* ------------------------------------------------------------------------
\* C17: a non-empty string of hexadecimal characters, in any letter case,
\* passes the hash test, and classifies as hash, if and only if its length
\* is 32, 40, 64 or 128.
\* ------------------------------------------------------------------------

Hexadecimal(s) ==
  /\ s # <<>>
  /\ \A i \in DOMAIN s :
       s[i] \in DigitSet \cup {"a","b","c","d","e","f","A","B","C","D","E","F"}

C17_HashLengths ==
  Hexadecimal(lastCall.arg) =>
    /\ lastCall.fn = "_is_hash" =>
         (lastCall.accepted <=> Len(lastCall.arg) \in {32, 40, 64, 128})
    /\ lastCall.fn = "infer_observable_type" =>
         (lastCall.kind = KindHash <=> Len(lastCall.arg) \in {32, 40, 64, 128})

\* An upper-case string of 128 hexadecimal characters passed the test.
C17_Witness ==
  /\ lastCall.fn = "_is_hash"
  /\ lastCall.arg = Repeat("F", 128)
  /\ lastCall.accepted

\* ------------------------------------------------------------------------
\* C18: the precedence example: infer_observable_type applied to
\* "d41d8cd98f00b204e9800998ecf8427" returns hash.
\* ------------------------------------------------------------------------

\* C18 as stated.
C18_ExampleIsHash ==
  (lastCall.fn = "infer_observable_type" /\ lastCall.arg = PrecedenceExample)
    => lastCall.kind = KindHash

\* C18 as amended: the string as printed has 31 characters and returns
\* None; with the final "e" of the 32-character digest it returns hash.
C18_ExampleAsPrinted ==
  lastCall.fn = "infer_observable_type" =>
    /\ lastCall.arg = PrecedenceExample =>
         Len(lastCall.arg) = 31 /\ lastCall.kind = PyNone
    /\ lastCall.arg = PrecedenceExample \o <<"e">> => lastCall.kind = KindHash

C18_Witness ==
  /\ lastCall.fn = "infer_observable_type"
  /\ lastCall.arg = PrecedenceExample
  /\ lastCall.kind = PyNone

\* ------------------------------------------------------------------------
\* C19: the domain test accepts exactly the sequences of one or more
\* dot-separated labels, each of 1 to 63 letters, digits and hyphens and
\* neither starting nor ending with a hyphen, whose final label is 2 to 63
\* letters.
\* ------------------------------------------------------------------------

Letters ==
  {"a","b","c","d","e","f","g","h","i","j","k","l","m",
   "n","o","p","q","r","s","t","u","v","w","x","y","z",
   "A","B","C","D","E","F","G","H","I","J","K","L","M",
   "N","O","P","Q","R","S","T","U","V","W","X","Y","Z"}

HostLabel(l) ==
  /\ Len(l) \in 1..63
  /\ \A i \in DOMAIN l : l[i] \in Letters \cup DigitSet \cup {"-"}
  /\ l[1] # "-" /\ l[Len(l)] # "-"

\* The labels between the dots of s form a host name of at least `least`
\* labels whose final label is 2 to 63 letters.
HostGrammar(s, least) ==
  LET labels == Split(s, ".")
      final == labels[Len(labels)]
  IN  /\ Len(labels) >= least
      /\ \A i \in DOMAIN labels : HostLabel(labels[i])
      /\ Len(final) \in 2..63
      /\ \A i \in DOMAIN final : final[i] \in Letters

\* C19 as stated: one label is enough.
C19_DomainGrammar ==
  lastCall.fn = "_is_domain" =>
    (lastCall.accepted <=> HostGrammar(lastCall.arg, 1))

\* C19 as amended: at least two labels, the final one included.
C19_DomainGrammarTwoLabels ==
  lastCall.fn = "_is_domain" =>
    /\ lastCall.accepted <=> HostGrammar(lastCall.arg, 2)
    /\ lastCall.arg = ExampleCom => lastCall.accepted
    /\ lastCall.arg \in {BadLeadingHyphen, BadTrailingHyphen} => ~lastCall.accepted
    /\ (\E i \in DOMAIN Split(lastCall.arg, ".") :
          Len(Split(lastCall.arg, ".")[i]) > 63) => ~lastCall.accepted

\* A single label of letters was rejected.
C19_Witness ==
  /\ lastCall.fn = "_is_domain"
  /\ lastCall.arg = Localhost
  /\ ~lastCall.accepted

\* ------------------------------------------------------------------------
\* C20: get_hash_algorithm depends on the length of its argument only: MD5
\* for 32, SHA-1 for 40, SHA-256 for 64, SHA-512 for 128, hexadecimal or
\* not, and the invalid-hash-length error for every other length.
\* ------------------------------------------------------------------------
C20_AlgorithmByLength ==
  lastCall.fn = "get_hash_algorithm" =>
    /\ Len(lastCall.arg) = 32 => lastCall.algorithm = "MD5"
    /\ Len(lastCall.arg) = 40 => lastCall.algorithm = "SHA-1"
    /\ Len(lastCall.arg) = 64 => lastCall.algorithm = "SHA-256"
    /\ Len(lastCall.arg) = 128 => lastCall.algorithm = "SHA-512"
    /\ Len(lastCall.arg) \notin {32, 40, 64, 128} =>
         lastCall.algorithm = "ValueError"

\* A string of 32 characters that are not hexadecimal resolved to MD5.
C20_Witness ==
  /\ lastCall.fn = "get_hash_algorithm"
  /\ lastCall.arg = Repeat("g", 32)
  /\ lastCall.algorithm = "MD5"

\* ------------------------------------------------------------------------
\* C21: find_observable_by_value returns the first candidate, in the order
\* of the answer, one of whose observable_value, value and name fields or
\* hash entries equals the target up to letter case, and None when there
\* is none; never a later candidate when an earlier one matches.
\* ------------------------------------------------------------------------
C21_FirstMatch ==
  lastCall.fn = "find_observable_by_value" =>
    LET matching == {i \in DOMAIN lastCall.edges :
                       /\ lastCall.edges[i].shape = "dict"
                       /\ CandidateEquals(lastCall.edges[i], lastCall.value)}
    IN  IF matching = {}
          THEN lastCall.node = EmptyDict
          ELSE lastCall.node = lastCall.edges[FirstOf(matching)]

\* ------------------------------------------------------------------------
\* C26: absent fields contribute nothing to the match: a candidate whose
\* observable_value, value and name are each absent or null, and none of
\* whose hash entries equals the target, matches no non-empty target; a
\* candidate matches only when one of its present string fields or hash
\* entries equals the target up to letter case.
\* ------------------------------------------------------------------------
C26_AbsentFieldsNeverMatch ==
  (lastCall.fn = "_match_observable_node" /\ lastCall.value # <<>>) =>
    LET node == lastCall.edges[1]
        matched == lastCall.node # EmptyDict
    IN  /\ ( /\ \A f \in {node.observable_value, node.value, node.name} :
                  f \in {Absent, PyNone}
             /\ \A i \in DOMAIN node.hashes :
                  Lower(node.hashes[i].hash) # Lower(lastCall.value) )
           => ~matched
        /\ matched => CandidateEquals(node, lastCall.value)

\* The settings an enrichment invocation was given are the cached ones.
ReturnedSettingsKept ==
  \A p \in Procs :
    (Enriching(p) /\ inv[p].connector_id # "")
      => inv[p].connector_id = settings.virustotal_connector_id

\* C25: once get_settings has returned settings, no step of the process
\* changes them, whatever happens to the environment in between, and every
\* later call is given those same settings.
C25_SettingsLoadedOnce ==
  [][ /\ (settings # NotLoaded => settings' = settings)
      /\ ReturnedSettingsKept' ]_vars

\* An enrichment was started when the environment no longer held the
\* connector the settings had been loaded with, and was given the loaded one.
C25_Witness ==
  \E p \in Procs :
    /\ Enriching(p)
    /\ inv[p].connector_id = "connector-vt"
    /\ inv[p].connector_id = settings.virustotal_connector_id
    /\ from_env(inv[p].environ_at_call) # settings

\* The creation request of an invocation that has issued one.
CreationOf(p) == inv[p].calls[2]

\* The search of the invocation was answered and no candidate matched.
Missed(p) == Creating(p) /\ AnswerMisses(p)

\* C22: after a miss the creation request has the shape of the kind: a
\* Domain-Name carrying the trimmed value for a domain, an IPv4-Addr or an
\* IPv6-Addr after the address family for an ip, an Artifact with one hash
\* entry whose algorithm follows the length for a hash; create_observable
\* of "8.8.8.8" on an empty answer issues an IPv4-Addr creation and returns
\* created, "8.8.8.8", IPv4-Addr when the store answers with the record.
C22_CreationShape ==
  \A p \in Procs :
    /\ (Creating(p) /\ Issued(p, "create")) =>
         /\ Missed(p)
         /\ CreationOf(p).value = Strip(inv[p].value)
         /\ inv[p].kind = KindDomain => CreationOf(p).stix_type = "Domain-Name"
         /\ inv[p].kind = KindIp =>
              /\ IsIPv4(Strip(inv[p].value)) => CreationOf(p).stix_type = "IPv4-Addr"
              /\ IsIPv6(Strip(inv[p].value)) => CreationOf(p).stix_type = "IPv6-Addr"
         /\ inv[p].kind = KindHash =>
              /\ CreationOf(p).stix_type = "Artifact"
              /\ Len(Strip(inv[p].value)) = 32  => CreationOf(p).algorithm = "MD5"
              /\ Len(Strip(inv[p].value)) = 40  => CreationOf(p).algorithm = "SHA-1"
              /\ Len(Strip(inv[p].value)) = 64  => CreationOf(p).algorithm = "SHA-256"
              /\ Len(Strip(inv[p].value)) = 128 => CreationOf(p).algorithm = "SHA-512"
    /\ (Missed(p) /\ inv[p].pc \in {"create", "done"}
          /\ inv[p].kind = KindIp /\ IsIpAddress(Strip(inv[p].value)))
         => Issued(p, "create")
    /\ (Missed(p) /\ inv[p].pc \in {"create", "done"} /\ inv[p].kind = KindDomain)
         => Issued(p, "create")
    /\ (Missed(p) /\ inv[p].pc \in {"create", "done"} /\ inv[p].kind = KindHash
          /\ Len(Strip(inv[p].value)) \in {32, 40, 64, 128})
         => Issued(p, "create")
    /\ (Missed(p) /\ inv[p].value = Ip8888 /\ inv[p].value_type = PyNone
          /\ inv[p].edges = <<>> /\ inv[p].pc = "done")
         => /\ CreationOf(p).stix_type = "IPv4-Addr"
            /\ (inv[p].reply_outcome = "data" /\ inv[p].reply_node.observable_value = Ip8888)
                 => /\ inv[p].outcome = "result"
                    /\ inv[p].result.status = "created"
                    /\ inv[p].result.value = Ip8888
                    /\ inv[p].result.entity_type = "IPv4-Addr"

\* An IPv6 address given with surrounding whitespace was created as an
\* IPv6-Addr, and "8.8.8.8" was created on an empty answer.
C22_Witness ==
  /\ Creating(1) /\ inv[1].pc = "done" /\ inv[1].outcome = "result"
  /\ inv[1].value = Ip8888 /\ inv[1].edges = <<>>
  /\ inv[1].result.status = "created"
  /\ \E rec \in Range(store) :
       rec.entity_type = "IPv6-Addr" /\ rec.value = Ipv6Example

\* The kind hash was given for a value whose trimmed length is not that of
\* a known algorithm, and the answered search held no match.
BadHashMissed(p) ==
  /\ Creating(p)
  /\ inv[p].value_type = KindHash
  /\ Len(Strip(inv[p].value)) \notin {32, 40, 64, 128}
  /\ AnswerMisses(p)

InvalidHashLengthError == ToolError("Invalid hash length")

\* C23: with the kind hash given for a value whose trimmed length is not 32,
\* 40, 64 or 128, a miss ends the invocation with the invalid-hash-length
\* creation failure: the search is the only call issued, no creation is
\* sent and no algorithm is chosen in place of the missing one.
C23_InvalidHashLength ==
  \A p \in Procs :
    BadHashMissed(p) =>
      /\ inv[p].pc = "done"
      /\ inv[p].outcome = "error"
      /\ inv[p].error = InvalidHashLengthError
      /\ CallKinds(p) = <<"search">>
      /\ inv[p].reply_outcome = ""

\* example.com was given as a hash, missed, and failed.
C23_Witness ==
  \E p \in Procs :
    /\ BadHashMissed(p)
    /\ inv[p].value = ExampleCom
    /\ inv[p].error = InvalidHashLengthError

\* A field of a record is present and non-empty.
PresentField(f) == f # Absent /\ f # PyNone /\ Len(f) > 0

\* The record a result reports: the candidate matched, or the record the
\* creation was answered with.
ReportedRecord(p) ==
  IF Creating(p) /\ inv[p].result.status = "created"
    THEN inv[p].reply_node ELSE inv[p].existing

\* C24: the value of every result is the reported record's
\* observable_value when present and non-empty, else its value, else its
\* name, else the input string as given; id and entity_type are the
\* record's.
C24_FallbackChain ==
  \A p \in Procs :
    (inv[p].pc = "done" /\ inv[p].outcome = "result") =>
      LET rec == ReportedRecord(p)
      IN  /\ inv[p].result.id = rec.id
          /\ inv[p].result.entity_type =
               (IF rec.entity_type = "<absent>" THEN "<null>" ELSE rec.entity_type)
          /\ inv[p].result.value =
               (IF PresentField(rec.observable_value) THEN rec.observable_value
                ELSE IF PresentField(rec.value) THEN rec.value
                ELSE IF PresentField(rec.name) THEN rec.name
                ELSE inv[p].value)
          /\ Creating(p) => inv[p].result.status \in {"exists", "created"}
          /\ (Creating(p) /\ inv[p].result.status = "exists")
               => rec \in Range(inv[p].edges)
          /\ Enriching(p) => rec \in Range(inv[p].edges)

\* A result took the value from the value field.
C24_WitnessValue ==
  \E p \in Procs :
    /\ inv[p].pc = "done" /\ inv[p].outcome = "result"
    /\ inv[p].existing = ValueOnlyRecord
    /\ inv[p].result.value = ExampleComUpper

\* A result took the value from the name field.
C24_WitnessName ==
  \E p \in Procs :
    /\ inv[p].pc = "done" /\ inv[p].outcome = "result"
    /\ inv[p].existing = NameOnlyRecord
    /\ inv[p].result.value = Ip8888

\* Results of each kind (exists, created, enrichment) fell back to the
\* input string as it was given.
C24_Witness ==
  \E p \in Procs :
    /\ inv[p].pc = "done" /\ inv[p].outcome = "result"
    /\ Creating(p) /\ inv[p].result.status = "created"
    /\ inv[p].reply_node.observable_value = PyNone
    /\ inv[p].value = Ipv6ExamplePadded
    /\ inv[p].result.value = Ipv6ExamplePadded

\* The record types a search for a kind is scoped to.
TypesOfKind(kind) ==
  IF kind = KindIp THEN <<"IPv4-Addr", "IPv6-Addr">>
  ELSE IF kind = KindDomain THEN <<"Domain-Name">>
  ELSE <<"Artifact", "StixFile">>

\* C27: the search of create_observable and of ask_virustotal_enrichment
\* is the first call, carries the input without its surrounding whitespace
\* and in its own letter case, the record types of the resolved kind and
\* the cap 10; the candidate taken from the answer is the first that equals
\* the trimmed value up to letter case, and none is taken when none does.
C27_SearchRequest ==
  \A p \in Procs :
    inv[p].calls # <<>> =>
      /\ inv[p].calls[1].call = "search"
      /\ inv[p].calls[1].value = Strip(inv[p].value)
      /\ inv[p].kind \in ObservableKinds
      /\ inv[p].calls[1].types = TypesOfKind(inv[p].kind)
      /\ inv[p].calls[1].first = 10
      /\ \A i \in DOMAIN inv[p].calls : i > 1 => inv[p].calls[i].call # "search"
      /\ inv[p].search_outcome = "data" =>
           /\ TruthyNode(inv[p].existing) <=> MatchingEdges(p) # {}
           /\ MatchingEdges(p) # {} =>
                \E i \in MatchingEdges(p) :
                  /\ inv[p].existing = inv[p].edges[i]
                  /\ \A j \in MatchingEdges(p) : i <= j

\* A value given in mixed case between whitespace was searched for in its
\* own case without the whitespace, and matched the lower-case record.
C27_Witness ==
  \E p \in Procs :
    /\ inv[p].value = ExampleComPadded
    /\ inv[p].calls # <<>>
    /\ inv[p].calls[1].value = Strip(ExampleComPadded)
    /\ inv[p].calls[1].value # Lower(Strip(ExampleComPadded))
    /\ inv[p].existing = ExactRecord

\* The three tests of the classifier, by name.
ClassifierTest(name, s) ==
  CASE name = "ip"     -> IsIpAddress(s)
    [] name = "hash"   -> IsHash(s)
    [] name = "domain" -> IsDomain(s)

KindNamed(name) ==
  CASE name = "ip" -> KindIp [] name = "hash" -> KindHash [] name = "domain" -> KindDomain

\* The orders in which the three tests can be evaluated.
TestOrders ==
  {o \in [1..3 -> {"ip", "hash", "domain"}] : \A i, j \in 1..3 : i # j => o[i] # o[j]}

\* The kind found when the tests are evaluated in the given order.
InferInOrder(s, order) ==
  IF s = <<>> THEN PyNone
  ELSE IF ClassifierTest(order[1], s) THEN KindNamed(order[1])
  ELSE IF ClassifierTest(order[2], s) THEN KindNamed(order[2])
  ELSE IF ClassifierTest(order[3], s) THEN KindNamed(order[3])
  ELSE PyNone

\* The tests a string passes.
TestsPassed(s) == {name \in {"ip", "hash", "domain"} : ClassifierTest(name, s)}

\* C28: no string passes more than one of the IP test, the hash test and
\* the domain test, and infer_observable_type returns what the tests give
\* in every order of evaluation.
C28_TestsExclusive ==
  /\ lastCall.fn \in {"_is_ip_address", "_is_hash", "_is_domain"} =>
       /\ Cardinality(TestsPassed(lastCall.arg)) <= 1
       /\ lastCall.accepted =>
            TestsPassed(lastCall.arg) =
              {CASE lastCall.fn = "_is_ip_address" -> "ip"
                 [] lastCall.fn = "_is_hash" -> "hash"
                 [] lastCall.fn = "_is_domain" -> "domain"}
  /\ lastCall.fn = "infer_observable_type" =>
       \A order \in TestOrders :
         InferInOrder(Strip(lastCall.arg), order) = lastCall.kind

\* A host name of hexadecimal labels passed the domain test and no other.
C28_Witness ==
  /\ lastCall.fn = "_is_domain"
  /\ lastCall.arg = <<"d","e","a","d",".","b","e","e","f">>
  /\ lastCall.accepted
  /\ TestsPassed(lastCall.arg) = {"domain"}

\* A lookup's answer holds a result get_entity accepts: an entity whose
\* type, when both it and the requested type are given, is the requested
\* one.
Accepted(answer, requested) ==
  /\ answer.outcome = "data"
  /\ answer.value.shape = "dict"
  /\ answer.value # EmptyValue
  /\ ~(/\ requested # ""
        /\ answer.value.entity_type # "<absent>"
        /\ answer.value.entity_type # requested)

\* C29: get_entity looks up the core object, then the core relationship,
\* then the cyber observable, three lookups at most; it goes on to the next
\* lookup only after an answer that holds no result or a result of another
\* type, returns the first accepted result, fails with the not-found error
\* when the third answer holds none either, and ends at the first lookup
\* that fails.
C29_LookupOrder ==
  inv[1].op = "get_entity" =>
    LET calls == inv[1].calls
        answers == inv[1].answers
        n == Len(calls)
    IN  /\ n \in 1..3
        /\ \A i \in 1..n :
             calls[i] = QueryCall(<<"CORE_OBJECT_QUERY", "CORE_RELATIONSHIP_QUERY",
                                    "CYBER_OBSERVABLE_QUERY">>[i],
                                  [id |-> inv[1].entity_id])
        /\ Len(answers) = (IF inv[1].pc = "done" THEN n ELSE n - 1)
        /\ \A i \in 1..(n - 1) :
             /\ answers[i].outcome = "data"
             /\ ~Accepted(answers[i], inv[1].entity_type)
        /\ inv[1].pc = "done" =>
             /\ Accepted(answers[n], inv[1].entity_type) =>
                  /\ inv[1].outcome = "result"
                  /\ inv[1].result = answers[n].value
             /\ answers[n].outcome # "data" =>
                  /\ inv[1].outcome = "error"
                  /\ inv[1].error # EntityNotFound
             /\ (answers[n].outcome = "data"
                   /\ ~Accepted(answers[n], inv[1].entity_type)) =>
                  /\ n = 3
                  /\ inv[1].outcome = "error"
                  /\ inv[1].error = EntityNotFound

\* The first lookup found an entity of another type, the second found
\* nothing, and the third returned an entity of the requested type.
C29_Witness ==
  /\ inv[1].op = "get_entity"
  /\ inv[1].pc = "done"
  /\ inv[1].entity_type = "Malware"
  /\ Len(inv[1].answers) = 3
  /\ inv[1].answers[1].value = Value("dict", "id-1", "Report")
  /\ inv[1].answers[2].value = NullValue
  /\ inv[1].result = Value("dict", "id-1", "Malware")
  /\ inv[1].outcome = "result"

\* C30: a collection search tool or a listing tool called with a limit of
\* zero or less fails with the limit error before it builds a client and
\* without a query; with a positive limit it builds a client and issues
\* one query that carries the limit as `first`, the entity id for a listing
\* tool, and the search term for a collection tool when it is a non-empty
\* string and no search variable otherwise.
C30_LimitChecked ==
  inv[1].op \in {"collection", "listing"} =>
    /\ inv[1].limit <= 0 =>
         /\ inv[1].pc = "done"
         /\ inv[1].outcome = "error"
         /\ inv[1].error = LimitError
         /\ inv[1].calls = <<>>
         /\ ~inv[1].client
    /\ inv[1].limit > 0 =>
         /\ inv[1].client
         /\ settings # NotLoaded
         /\ Len(inv[1].calls) = 1
         /\ inv[1].calls[1].variables.first = inv[1].limit
         /\ inv[1].op = "listing" =>
              /\ DOMAIN inv[1].calls[1].variables = {"id", "first"}
              /\ inv[1].calls[1].variables.id = inv[1].entity_id
         /\ inv[1].op = "collection" =>
              IF inv[1].search # PyNone /\ Len(inv[1].search) > 0
                THEN /\ DOMAIN inv[1].calls[1].variables = {"first", "search"}
                     /\ inv[1].calls[1].variables.search = inv[1].search
                ELSE DOMAIN inv[1].calls[1].variables = {"first"}

\* The first tool call of the process was a collection search with limit
\* zero: it was rejected and the settings are still not loaded.
C30_Witness ==
  /\ inv[1].op = "collection"
  /\ inv[1].limit = 0
  /\ inv[1].error = LimitError
  /\ settings = NotLoaded
  /\ started = 1

====
